---- MODULE Spec2Model ----
(***************************************************************************)
(* A model of pytoon, the TOON encoder/decoder (src/python/pytoon).        *)
(*                                                                         *)
(* Texts, keys and string values are sequences of one-character strings.   *)
(* Indices into them are 0-based, as in the Python source: At(s, i) is     *)
(* s[i] and Slice(s, a, b) is s[a:b].  A search that finds nothing gives   *)
(* -1, as str.find does.                                                   *)
(*                                                                         *)
(* Values of the Value Model are tagged records:                           *)
(*   [t |-> "null"]  [t |-> "bool", b]  [t |-> "num", m, e]                *)
(*   [t |-> "str", s]  [t |-> "arr", a]  [t |-> "obj", o]                  *)
(* A number is the exact decimal m * 10^e in normal form (m = 0 gives      *)
(* e = 0, otherwise 10 does not divide m), so that equal numbers are equal *)
(* records.  This is exact for the literals within the bounds below (at    *)
(* most 9 significant digits).  An object is the sequence of its [k, v]    *)
(* entries in insertion order, with unique keys.                           *)
(***************************************************************************)
EXTENDS Integers, Sequences, FiniteSets, TLC

VARIABLES pc, input, options, text, result, text2, stack, writer

vars == <<pc, input, options, text, result, text2, stack, writer>>

(* A local variable: F applied to the value of x, which is computed at most *)
(* once, and only when F uses it.                                          *)

Bind(x, F(_)) == F(x)

----------------------------------------------------------------------------
(* constants.py *)

LIST_ITEM_MARKER == "-"
LIST_ITEM_PREFIX == <<"-", " ">>
COMMA == ","
COLON == ":"
SPACE == " "
PIPE == "|"
DOT == "."
OPEN_BRACKET == "["
CLOSE_BRACKET == "]"
OPEN_BRACE == "{"
CLOSE_BRACE == "}"
NULL_LITERAL == <<"n", "u", "l", "l">>
TRUE_LITERAL == <<"t", "r", "u", "e">>
FALSE_LITERAL == <<"f", "a", "l", "s", "e">>
BACKSLASH == "\\"
DOUBLE_QUOTE == "\""
NEWLINE == "\n"
CARRIAGE_RETURN == "\r"
TAB == "\t"
DELIMITERS == {COMMA, TAB, PIPE}
DEFAULT_DELIMITER == COMMA

----------------------------------------------------------------------------
(* Python built-ins on strings and lists *)

None == [t |-> "none"]

\* an optional argument that is present
Some(v) == [t |-> "some", v |-> v]

Min(a, b) == IF a < b THEN a ELSE b
Max(a, b) == IF a > b THEN a ELSE b

At(s, i) == s[i + 1]

Slice(s, a, b) == SubSeq(s, Max(a, 0) + 1, Min(b, Len(s)))

From(s, a) == Slice(s, a, Len(s))

StartsWith(s, p) == Len(s) >= Len(p) /\ SubSeq(s, 1, Len(p)) = p

StartsWithChar(s, c) == Len(s) > 0 /\ s[1] = c

EndsWithChar(s, c) == Len(s) > 0 /\ s[Len(s)] = c

Contains(s, c) == \E i \in 1..Len(s) : s[i] = c

\* str.find(c, start) for a one-character c
Find(s, c, start) ==
    LET hits == {i \in Max(start, 0)..(Len(s) - 1) : At(s, i) = c}
    IN  IF hits = {} THEN -1 ELSE CHOOSE i \in hits : \A j \in hits : i <= j

Letters ==
    {"a", "b", "c", "d", "e", "f", "g", "h", "i", "j", "k", "l", "m",
     "n", "o", "p", "q", "r", "s", "t", "u", "v", "w", "x", "y", "z",
     "A", "B", "C", "D", "E", "F", "G", "H", "I", "J", "K", "L", "M",
     "N", "O", "P", "Q", "R", "S", "T", "U", "V", "W", "X", "Y", "Z"}

Digits == {"0", "1", "2", "3", "4", "5", "6", "7", "8", "9"}

\* str.strip() strips whitespace; the model knows these whitespace characters
IsSpace(c) == c \in {" ", "\t", "\n", "\r", "\f"}

IsDigit(c) == c \in Digits

\* the regular expression class \w
IsWord(c) == c \in Letters \/ c \in Digits \/ c = "_"

RECURSIVE LStrip(_)
LStrip(s) == IF Len(s) > 0 /\ IsSpace(s[1]) THEN LStrip(Tail(s)) ELSE s

RECURSIVE RStrip(_)
RStrip(s) ==
    IF Len(s) > 0 /\ IsSpace(s[Len(s)]) THEN RStrip(SubSeq(s, 1, Len(s) - 1)) ELSE s

Strip(s) == LStrip(RStrip(s))

\* sep.join(parts) for a one-character sep
RECURSIVE Join(_, _)
Join(sep, parts) ==
    IF Len(parts) = 0 THEN <<>>
    ELSE IF Len(parts) = 1 THEN parts[1]
    ELSE parts[1] \o <<sep>> \o Join(sep, Tail(parts))

\* str.split(sep) for a one-character sep
RECURSIVE Split(_, _)
Split(s, sep) ==
    LET i == Find(s, sep, 0)
    IN  IF i = -1 THEN <<s>> ELSE <<Slice(s, 0, i)>> \o Split(From(s, i + 1), sep)

RECURSIVE Repeat(_, _)
Repeat(c, n) == IF n <= 0 THEN <<>> ELSE <<c>> \o Repeat(c, n - 1)

DigitChar(d) ==
    CASE d = 0 -> "0" [] d = 1 -> "1" [] d = 2 -> "2" [] d = 3 -> "3" [] d = 4 -> "4"
      [] d = 5 -> "5" [] d = 6 -> "6" [] d = 7 -> "7" [] d = 8 -> "8" [] d = 9 -> "9"

DigitVal(c) ==
    CASE c = "0" -> 0 [] c = "1" -> 1 [] c = "2" -> 2 [] c = "3" -> 3 [] c = "4" -> 4
      [] c = "5" -> 5 [] c = "6" -> 6 [] c = "7" -> 7 [] c = "8" -> 8 [] c = "9" -> 9

\* str(n) for n >= 0
RECURSIVE NatStr(_)
NatStr(n) == IF n < 10 THEN <<DigitChar(n)>> ELSE NatStr(n \div 10) \o <<DigitChar(n % 10)>>

\* str(n) for an int n
IntStr(n) == IF n < 0 THEN <<"-">> \o NatStr(0 - n) ELSE NatStr(n)

\* the value of a sequence of digit characters
RECURSIVE DigitsVal(_)
DigitsVal(ds) ==
    IF Len(ds) = 0 THEN 0
    ELSE 10 * DigitsVal(SubSeq(ds, 1, Len(ds) - 1)) + DigitVal(ds[Len(ds)])

\* index after the longest run of digits of s that starts at i
RECURSIVE SkipDigits(_, _)
SkipDigits(s, i) == IF i < Len(s) /\ IsDigit(At(s, i)) THEN SkipDigits(s, i + 1) ELSE i

----------------------------------------------------------------------------
(* Results of operations that can raise: Ok(v) or Err(exception, kind) *)

Ok(v) == [ok |-> TRUE, v |-> v]

Err(exc, kind) == [ok |-> FALSE, exc |-> exc, err |-> kind]

----------------------------------------------------------------------------
(* Value Model: types.py, normalize.py *)

VNull == [t |-> "null"]
VBool(b) == [t |-> "bool", b |-> b]
VStr(s) == [t |-> "str", s |-> s]
VArr(a) == [t |-> "arr", a |-> a]
VObj(o) == [t |-> "obj", o |-> o]

\* the decimal m * 10^e in normal form
RECURSIVE Normal(_, _)
Normal(m, e) ==
    IF m = 0 THEN [m |-> 0, e |-> 0]
    ELSE IF m % 10 = 0 THEN Normal(m \div 10, e + 1)
    ELSE [m |-> m, e |-> e]

VNum(m, e) == [t |-> "num", m |-> Normal(m, e).m, e |-> Normal(m, e).e]

VInt(n) == VNum(n, 0)

\* Python values as encode receives them: None, bool, str, int, float (a
\* finite sign * m * 10^e with m >= 0, where m = 0 with sign -1 is -0.0, or
\* nan, or an infinity), list and dict with string keys.  Decimal, datetime,
\* set and plain objects are not modelled.
PyNone == [py |-> "none"]
PyBool(b) == [py |-> "bool", b |-> b]
PyStr(s) == [py |-> "str", s |-> s]
PyInt(n) == [py |-> "int", n |-> n]
PyFloat(sign, m, e) == [py |-> "float", kind |-> "finite", sign |-> sign, m |-> m, e |-> e]
PyNaN == [py |-> "float", kind |-> "nan"]
PyInf(sign) == [py |-> "float", kind |-> "inf", sign |-> sign]
PyList(items) == [py |-> "list", items |-> items]
PyDict(entries) == [py |-> "dict", entries |-> entries]

\* normalize_value on an int or a float that keeps nan and the infinities,
\* as the words NaN and Infinity
normalize_number_nonfinite_kept(value) ==
    IF value.py = "float"
    THEN IF value.kind = "nan" THEN VStr(<<"N", "a", "N">>)
         ELSE IF value.kind = "inf" THEN VStr(<<"I", "n", "f", "i", "n", "i", "t", "y">>)
         ELSE IF value.m = 0 THEN VInt(0)
         ELSE VNum(value.sign * value.m, value.e)
    ELSE VInt(value.n)

\* normalize_value on an int or a float
normalize_number(value) ==
    IF value.py = "float"
    THEN IF value.kind \in {"nan", "inf"} THEN VNull
         ELSE IF value.m = 0 THEN VInt(0)
         ELSE VNum(value.sign * value.m, value.e)
    ELSE VInt(value.n)

RECURSIVE normalize_value(_)
normalize_value(value) ==
    CASE value.py = "none" -> VNull
      [] value.py = "str" -> VStr(value.s)
      [] value.py = "bool" -> VBool(value.b)
      [] value.py \in {"int", "float"} -> normalize_number(value)
      [] value.py = "list" ->
            VArr([i \in 1..Len(value.items) |-> normalize_value(value.items[i])])
      [] value.py = "dict" ->
            VObj([i \in 1..Len(value.entries) |->
                     [k |-> value.entries[i].k, v |-> normalize_value(value.entries[i].v)]])

is_json_primitive(value) == value.t \in {"null", "bool", "num", "str"}

is_json_array(value) == value.t = "arr"

is_json_object(value) == value.t = "obj"

is_empty_object(value) == Len(value.o) = 0

is_array_of_primitives(value) == \A i \in 1..Len(value.a) : is_json_primitive(value.a[i])

is_array_of_arrays(value) == \A i \in 1..Len(value.a) : is_json_array(value.a[i])

is_array_of_objects(value) == \A i \in 1..Len(value.a) : is_json_object(value.a[i])

----------------------------------------------------------------------------
(* string_utils.py *)

\* str.replace(c, repl) for a one-character c
RECURSIVE Replace(_, _, _)
Replace(s, c, repl) ==
    IF Len(s) = 0 THEN <<>>
    ELSE (IF s[1] = c THEN repl ELSE <<s[1]>>) \o Replace(Tail(s), c, repl)

\* escape_string with the backslash replaced last
escape_string_backslash_last(value) ==
    Replace(Replace(Replace(Replace(Replace(value,
        DOUBLE_QUOTE, <<BACKSLASH, DOUBLE_QUOTE>>),
        "\n", <<BACKSLASH, "n">>),
        "\r", <<BACKSLASH, "r">>),
        "\t", <<BACKSLASH, "t">>),
        BACKSLASH, <<BACKSLASH, BACKSLASH>>)

escape_string(value) ==
    Replace(Replace(Replace(Replace(Replace(value,
        BACKSLASH, <<BACKSLASH, BACKSLASH>>),
        DOUBLE_QUOTE, <<BACKSLASH, DOUBLE_QUOTE>>),
        "\n", <<BACKSLASH, "n">>),
        "\r", <<BACKSLASH, "r">>),
        "\t", <<BACKSLASH, "t">>)

RECURSIVE UnescapeFrom(_, _, _)
UnescapeFrom(value, i, acc) ==
    IF i >= Len(value) THEN Ok(acc)
    ELSE IF At(value, i) # BACKSLASH THEN UnescapeFrom(value, i + 1, Append(acc, At(value, i)))
    ELSE IF i + 1 >= Len(value) THEN Err("SyntaxError", "MalformedEscape")
    ELSE LET nxt == At(value, i + 1)
         IN  CASE nxt = "n" -> UnescapeFrom(value, i + 2, Append(acc, NEWLINE))
               [] nxt = "t" -> UnescapeFrom(value, i + 2, Append(acc, TAB))
               [] nxt = "r" -> UnescapeFrom(value, i + 2, Append(acc, CARRIAGE_RETURN))
               [] nxt = BACKSLASH -> UnescapeFrom(value, i + 2, Append(acc, BACKSLASH))
               [] nxt = DOUBLE_QUOTE -> UnescapeFrom(value, i + 2, Append(acc, DOUBLE_QUOTE))
               [] OTHER -> Err("SyntaxError", "MalformedEscape")

unescape_string(value) == UnescapeFrom(value, 0, <<>>)

RECURSIVE ClosingQuoteFrom(_, _)
ClosingQuoteFrom(content, i) ==
    IF i >= Len(content) THEN -1
    ELSE IF At(content, i) = BACKSLASH /\ i + 1 < Len(content) THEN ClosingQuoteFrom(content, i + 2)
    ELSE IF At(content, i) = DOUBLE_QUOTE THEN i
    ELSE ClosingQuoteFrom(content, i + 1)

find_closing_quote(content, start) == ClosingQuoteFrom(content, start + 1)

RECURSIVE UnquotedCharFrom(_, _, _, _)
UnquotedCharFrom(content, target, i, in_quotes) ==
    IF i >= Len(content) THEN -1
    ELSE IF At(content, i) = BACKSLASH /\ i + 1 < Len(content) /\ in_quotes
         THEN UnquotedCharFrom(content, target, i + 2, in_quotes)
    ELSE IF At(content, i) = DOUBLE_QUOTE
         THEN UnquotedCharFrom(content, target, i + 1, ~in_quotes)
    ELSE IF At(content, i) = target /\ ~in_quotes THEN i
    ELSE UnquotedCharFrom(content, target, i + 1, in_quotes)

find_unquoted_char(content, target, start) == UnquotedCharFrom(content, target, start, FALSE)

----------------------------------------------------------------------------
(* Python's float() and int() on text.  float() accepts                    *)
(*   [sign] (digitpart ["." [digitpart]] | "." digitpart) [exponent]       *)
(* where digitpart is digits with single underscores between digits, and   *)
(* the words inf, infinity and nan, which is_numeric_literal then rejects. *)

\* index after the longest digitpart of s that starts at i (i when there is none)
RECURSIVE DigitPartRest(_, _)
DigitPartRest(s, j) ==
    IF j < Len(s) /\ IsDigit(At(s, j)) THEN DigitPartRest(s, j + 1)
    ELSE IF j + 1 < Len(s) /\ At(s, j) = "_" /\ IsDigit(At(s, j + 1)) THEN DigitPartRest(s, j + 2)
    ELSE j

DigitPartEnd(s, i) == IF i < Len(s) /\ IsDigit(At(s, i)) THEN DigitPartRest(s, i + 1) ELSE i

DropUnderscores(s) == SelectSeq(s, LAMBDA c : c # "_")

IsSign(c) == c = "+" \/ c = "-"

\* The parts of a decimal float literal, or ok = FALSE when float() raises ValueError.
FloatParts(token) ==
    Bind(Strip(token), LAMBDA s :
    Bind(Len(s), LAMBDA n :
    Bind(IF n > 0 /\ IsSign(s[1]) THEN 1 ELSE 0, LAMBDA i0 :
    Bind(DigitPartEnd(s, i0), LAMBDA i1 :
    Bind(i1 < n /\ At(s, i1) = ".", LAMBDA hasDot :
    Bind(IF hasDot THEN DigitPartEnd(s, i1 + 1) ELSE i1, LAMBDA i2 :
    Bind(i1 > i0 \/ (hasDot /\ i2 > i1 + 1), LAMBDA hasDigits :
    Bind(i2 < n /\ At(s, i2) \in {"e", "E"}, LAMBDA hasExp :
    Bind(IF hasExp /\ i2 + 1 < n /\ IsSign(At(s, i2 + 1)) THEN i2 + 2 ELSE i2 + 1, LAMBDA j :
    Bind(IF hasExp THEN DigitPartEnd(s, j) ELSE i2, LAMBDA i3 :
    Bind(~hasExp \/ i3 > j, LAMBDA expOk :
    Bind(IF hasExp /\ i3 > j THEN DigitsVal(DropUnderscores(Slice(s, j, i3))) ELSE 0,
         LAMBDA expVal :
        IF hasDigits /\ expOk /\ i3 = n
        THEN [ok |-> TRUE,
              neg |-> n > 0 /\ s[1] = "-",
              int |-> DropUnderscores(Slice(s, i0, i1)),
              frac |-> IF hasDot THEN DropUnderscores(Slice(s, i1 + 1, i2)) ELSE <<>>,
              exp |-> IF hasExp /\ At(s, j - 1) = "-" THEN 0 - expVal ELSE expVal]
        ELSE [ok |-> FALSE]))))))))))))

\* The decimal a literal denotes: [m, e] in normal form.
FloatDecimal(p) ==
    Bind(DigitsVal(p.int \o p.frac), LAMBDA mag :
        Normal(IF p.neg THEN 0 - mag ELSE mag, p.exp - Len(p.frac)))

\* The exponent of the decimal m * 10^e in scientific notation.
SciExp(m, e) == Len(NatStr(IF m < 0 THEN 0 - m ELSE m)) - 1 + e

\* float() gives inf above the largest double, about 1.7976931348623157e308
\* (the model's mantissas have at most 9 digits).
FloatOverflows(d) ==
    /\ d.m # 0
    /\ \/ SciExp(d.m, d.e) > 308
       \/ /\ SciExp(d.m, d.e) = 308
          /\ Bind(NatStr(IF d.m < 0 THEN 0 - d.m ELSE d.m), LAMBDA ds :
             Bind(DigitsVal(SubSeq(ds \o Repeat("0", 9), 1, 9)), LAMBDA lead :
                 lead >= 179769314))

\* float() gives 0.0 below half the smallest subnormal double, about 2.47e-324.
FloatUnderflows(d) == d.m # 0 /\ SciExp(d.m, d.e) < -324

\* float(token) as a Value-Model number
FloatValue(token) ==
    Bind(FloatDecimal(FloatParts(token)), LAMBDA d :
        IF FloatUnderflows(d) THEN VNum(0, 0) ELSE VNum(d.m, d.e))

\* int(text): [sign] digitpart, surrounded by optional whitespace
IntParts(textIn) ==
    Bind(Strip(textIn), LAMBDA s :
    Bind(Len(s), LAMBDA n :
    Bind(IF n > 0 /\ IsSign(s[1]) THEN 1 ELSE 0, LAMBDA i0 :
    Bind(DigitPartEnd(s, i0), LAMBDA i1 :
        IF i1 > i0 /\ i1 = n
        THEN [ok |-> TRUE,
              n |-> IF s[1] = "-" THEN 0 - DigitsVal(DropUnderscores(Slice(s, i0, i1)))
                                  ELSE DigitsVal(DropUnderscores(Slice(s, i0, i1)))]
        ELSE [ok |-> FALSE]))))

----------------------------------------------------------------------------
(* literal_utils.py *)

is_boolean_or_null_literal(token) == token \in {TRUE_LITERAL, FALSE_LITERAL, NULL_LITERAL}

is_numeric_literal(token) ==
    IF Len(token) = 0 THEN FALSE
    ELSE IF Len(token) > 1 /\ token[1] = "0" /\ token[2] # "." THEN FALSE
    ELSE /\ FloatParts(token).ok
         /\ ~FloatOverflows(FloatDecimal(FloatParts(token)))

----------------------------------------------------------------------------
(* validation_utils.py *)

\* A pattern's final $ also matches just before a newline that ends the text.
DollarBody(s) == IF EndsWithChar(s, NEWLINE) THEN {s, SubSeq(s, 1, Len(s) - 1)} ELSE {s}

\* ^[A-Z_][\w.]*$ with IGNORECASE
MatchesUnquotedKey(s) ==
    /\ Len(s) > 0
    /\ s[1] \in Letters \/ s[1] = "_"
    /\ \A i \in 2..Len(s) : IsWord(s[i]) \/ s[i] = "."

is_valid_unquoted_key(key) == \E b \in DollarBody(key) : MatchesUnquotedKey(b)

\* ^[A-Z_]\w*$ with IGNORECASE
MatchesIdentifierSegment(s) ==
    /\ Len(s) > 0
    /\ s[1] \in Letters \/ s[1] = "_"
    /\ \A i \in 2..Len(s) : IsWord(s[i])

is_identifier_segment(key) == \E b \in DollarBody(key) : MatchesIdentifierSegment(b)

\* ^-?\d+(?:\.\d+)?(?:e[+-]?\d+)?$ with IGNORECASE
MatchesNumericLike(s) ==
    Bind(Len(s), LAMBDA n :
    Bind(IF n > 0 /\ s[1] = "-" THEN 1 ELSE 0, LAMBDA i0 :
    Bind(SkipDigits(s, i0), LAMBDA i1 :
    Bind(IF i1 < n /\ At(s, i1) = "." THEN SkipDigits(s, i1 + 1) ELSE i1, LAMBDA f1 :
    Bind(IF f1 > i1 + 1 THEN f1 ELSE i1, LAMBDA i2 :
    Bind(IF i2 + 1 < n /\ IsSign(At(s, i2 + 1)) THEN i2 + 2 ELSE i2 + 1, LAMBDA j :
    Bind(IF i2 < n /\ At(s, i2) \in {"e", "E"} THEN SkipDigits(s, j) ELSE i2, LAMBDA x1 :
    Bind(IF x1 > j THEN x1 ELSE i2, LAMBDA i3 :
        i1 > i0 /\ i3 = n))))))))

\* ^0\d+$
MatchesLeadingZero(s) ==
    Len(s) >= 2 /\ s[1] = "0" /\ \A i \in 2..Len(s) : IsDigit(s[i])

_is_numeric_like(value) ==
    \E b \in DollarBody(value) : MatchesNumericLike(b) \/ MatchesLeadingZero(b)

\* is_safe_unquoted with the delimiter argument ignored (the default is used)
is_safe_unquoted_default_delimiter(value, delimiter) ==
    IF Len(value) = 0 \/ value # Strip(value) THEN FALSE
    ELSE IF is_boolean_or_null_literal(value) \/ _is_numeric_like(value) THEN FALSE
    ELSE IF Contains(value, ":") \/ Contains(value, "\"") \/ Contains(value, "\\") THEN FALSE
    ELSE IF \E x \in {"[", "]", "{", "}"} : Contains(value, x) THEN FALSE
    ELSE IF \E c \in {"\n", "\r", "\t"} : Contains(value, c) THEN FALSE
    ELSE IF Contains(value, DEFAULT_DELIMITER) THEN FALSE
    ELSE IF StartsWithChar(value, LIST_ITEM_MARKER) THEN FALSE
    ELSE TRUE

is_safe_unquoted(value, delimiter) ==
    IF Len(value) = 0 \/ value # Strip(value) THEN FALSE
    ELSE IF is_boolean_or_null_literal(value) \/ _is_numeric_like(value) THEN FALSE
    ELSE IF Contains(value, ":") \/ Contains(value, "\"") \/ Contains(value, "\\") THEN FALSE
    ELSE IF \E x \in {"[", "]", "{", "}"} : Contains(value, x) THEN FALSE
    ELSE IF \E c \in {"\n", "\r", "\t"} : Contains(value, c) THEN FALSE
    ELSE IF Contains(value, delimiter) THEN FALSE
    ELSE IF StartsWithChar(value, LIST_ITEM_MARKER) THEN FALSE
    ELSE TRUE

----------------------------------------------------------------------------
(* encode/primitives.py *)

\* str(value) of a float that is not integral (e < 0): the shortest repr, in
\* fixed notation when the scientific exponent x is in -4..15, otherwise
\* d[.ddd]e-XX with the exponent padded to two digits.
PyFloatStr(m, e) ==
    Bind(NatStr(IF m < 0 THEN 0 - m ELSE m), LAMBDA ds :
    Bind(Len(ds), LAMBDA n :
    Bind(n - 1 + e, LAMBDA x :
    Bind(IF m < 0 THEN <<"-">> ELSE <<>>, LAMBDA sign :
    Bind(NatStr(IF x < 0 THEN 0 - x ELSE x), LAMBDA xs :
        IF x >= 0 THEN sign \o SubSeq(ds, 1, x + 1) \o <<".">> \o SubSeq(ds, x + 2, n)
        ELSE IF x >= -4 THEN sign \o <<"0", ".">> \o Repeat("0", (0 - x) - 1) \o ds
        ELSE sign \o <<ds[1]>> \o (IF n > 1 THEN <<".">> \o Tail(ds) ELSE <<>>)
                  \o <<"e", "-">> \o (IF Len(xs) < 2 THEN <<"0">> \o xs ELSE xs))))))

RECURSIVE LStripZeros(_)
LStripZeros(s) == IF Len(s) > 0 /\ s[1] = "0" THEN LStripZeros(Tail(s)) ELSE s

\* A Value-Model number is an int or a finite float; both kinds give the same
\* text for the same numeric value, and 0.0 and -0.0 give "0" like the int 0.
_format_number_js(value) ==
    IF value.e >= 0
    THEN IntStr(value.m) \o (IF value.m = 0 THEN <<>> ELSE Repeat("0", value.e))
    ELSE Bind(PyFloatStr(value.m, value.e), LAMBDA s :
         Bind(Find(s, "e", 0), LAMBDA ePos :
             IF ePos # -1
             THEN Bind(Slice(s, 0, ePos), LAMBDA mantissa :
                  Bind(From(s, ePos + 1), LAMBDA exp :
                      IF Len(exp) > 0 /\ IsSign(exp[1])
                      THEN Bind(LStripZeros(Tail(exp)), LAMBDA digits :
                               mantissa \o <<"e", exp[1]>>
                                 \o (IF digits = <<>> THEN <<"0">> ELSE digits))
                      ELSE s))
             ELSE s))

Quoted(s) == <<DOUBLE_QUOTE>> \o escape_string(s) \o <<DOUBLE_QUOTE>>

encode_string_literal(value, delimiter) ==
    IF is_safe_unquoted(value, delimiter) THEN value ELSE Quoted(value)

encode_primitive(value, delimiter) ==
    CASE value.t = "null" -> NULL_LITERAL
      [] value.t = "bool" -> (IF value.b THEN TRUE_LITERAL ELSE FALSE_LITERAL)
      [] value.t = "num" -> _format_number_js(value)
      [] OTHER -> encode_string_literal(value.s, delimiter)

encode_key(key) == IF is_valid_unquoted_key(key) THEN key ELSE Quoted(key)

encode_and_join_primitives(values, delimiter) ==
    Join(delimiter, [i \in 1..Len(values) |-> encode_primitive(values[i], delimiter)])

\* key and fields are None when the caller passes none; an empty key and an
\* empty field list are falsy and treated like None.
format_header(length, key, fields, delimiter) ==
    Bind(IF key # None /\ Len(key.v) > 0 THEN encode_key(key.v) ELSE <<>>, LAMBDA keyPart :
    Bind(IF delimiter # DEFAULT_DELIMITER THEN <<delimiter>> ELSE <<>>, LAMBDA delimiter_suffix :
    Bind(<<"[">> \o IntStr(length) \o delimiter_suffix \o <<"]">>, LAMBDA bracket :
    Bind(IF fields # None /\ Len(fields.v) > 0
         THEN <<"{">> \o Join(delimiter, [i \in 1..Len(fields.v) |-> encode_key(fields.v[i])])
                    \o <<"}">>
         ELSE <<>>,
         LAMBDA fieldPart :
        keyPart \o bracket \o fieldPart \o <<":">>))))

encode_inline_array_line(values, delimiter, prefix) ==
    Bind(format_header(Len(values), prefix, None, delimiter), LAMBDA header :
        IF Len(values) = 0 THEN header
        ELSE header \o <<" ">> \o encode_and_join_primitives(values, delimiter))

----------------------------------------------------------------------------
(* decode/parser.py *)

parse_string_literal(token) ==
    Bind(Strip(token), LAMBDA trimmed :
    Bind(find_closing_quote(trimmed, 0), LAMBDA closing :
        IF ~StartsWithChar(trimmed, DOUBLE_QUOTE) THEN Ok(trimmed)
        ELSE IF closing = -1 THEN Err("SyntaxError", "UnterminatedString")
        ELSE IF closing # Len(trimmed) - 1 THEN Err("SyntaxError", "AfterClosingQuote")
        ELSE unescape_string(Slice(trimmed, 1, closing))))

\* The result of parse_string_literal as a Value-Model string
StrResult(r) == IF r.ok THEN Ok(VStr(r.v)) ELSE r

parse_primitive_token(token) ==
    Bind(Strip(token), LAMBDA trimmed :
        IF Len(trimmed) = 0 THEN Ok(VStr(<<>>))
        ELSE IF StartsWithChar(trimmed, DOUBLE_QUOTE) THEN StrResult(parse_string_literal(trimmed))
        ELSE IF is_boolean_or_null_literal(trimmed)
             THEN IF trimmed = TRUE_LITERAL THEN Ok(VBool(TRUE))
                  ELSE IF trimmed = FALSE_LITERAL THEN Ok(VBool(FALSE))
                  ELSE Ok(VNull)
        ELSE IF is_numeric_literal(trimmed)
             THEN \* float(trimmed) and int(trimmed) denote the same decimal
                  Ok(FloatValue(trimmed))
        ELSE Ok(VStr(trimmed)))

map_row_values_to_primitives(values) ==
    [i \in 1..Len(values) |-> parse_primitive_token(values[i])]

parse_bracket_segment(segment, default_delimiter) ==
    Bind(IF EndsWithChar(segment, TAB) THEN TAB
         ELSE IF EndsWithChar(segment, PIPE) THEN PIPE
         ELSE default_delimiter,
         LAMBDA delimiter :
    Bind(IF EndsWithChar(segment, TAB) \/ EndsWithChar(segment, PIPE)
         THEN SubSeq(segment, 1, Len(segment) - 1) ELSE segment,
         LAMBDA content :
    Bind(IntParts(content), LAMBDA length :
        IF ~length.ok THEN Err("ValueError", "InvalidLength")
        ELSE IF length.n < 0 THEN Err("ValueError", "NegativeLength")
        ELSE Ok([length |-> length.n, delimiter |-> delimiter]))))

\* The loop of parse_delimited_values from character i on: the finished values,
\* the current value, and the two flags.
RECURSIVE DelimitedFrom(_, _, _, _, _, _, _)
DelimitedFrom(content, delimiter, i, values, current, in_quotes, escape_next) ==
    IF i >= Len(content) THEN Append(values, Strip(current))
    ELSE LET char == At(content, i)
         IN  IF escape_next
             THEN DelimitedFrom(content, delimiter, i + 1, values, Append(current, char), in_quotes, FALSE)
             ELSE IF char = BACKSLASH /\ in_quotes
             THEN DelimitedFrom(content, delimiter, i + 1, values, Append(current, char), in_quotes, TRUE)
             ELSE IF char = DOUBLE_QUOTE
             THEN DelimitedFrom(content, delimiter, i + 1, values, Append(current, char), ~in_quotes, FALSE)
             ELSE IF char = delimiter /\ ~in_quotes
             THEN DelimitedFrom(content, delimiter, i + 1, Append(values, Strip(current)), <<>>, in_quotes, FALSE)
             ELSE DelimitedFrom(content, delimiter, i + 1, values, Append(current, char), in_quotes, FALSE)

parse_delimited_values(content, delimiter) ==
    LET values == DelimitedFrom(content, delimiter, 0, <<>>, <<>>, FALSE, FALSE)
    IN  IF values = << <<>> >> THEN <<>> ELSE values

----------------------------------------------------------------------------
(* encode/writer.py: the writer only appends, so each encoder operator     *)
(* returns the lines it pushes, in order.                                  *)

push(indent_size, depth, content) == <<Repeat(" ", indent_size * depth) \o content>>

push_list_item(indent_size, depth, content) == push(indent_size, depth, LIST_ITEM_PREFIX \o content)

to_string(lines) == Join(NEWLINE, lines)

RECURSIVE Flatten(_)
Flatten(seqs) == IF Len(seqs) = 0 THEN <<>> ELSE seqs[1] \o Flatten(Tail(seqs))

----------------------------------------------------------------------------
(* encode/folding.py.  A flatten depth is [inf |-> TRUE] (math.inf, the     *)
(* default) or [inf |-> FALSE, n |-> an int].                               *)

Unbounded == [inf |-> TRUE, n |-> 0]

FlattenDepth(n) == [inf |-> FALSE, n |-> n]

\* len < max_depth
BelowDepth(len, max_depth) == max_depth.inf \/ len < max_depth.n

\* the budget handed on unchanged after a fold
DepthMinus_whole_budget(max_depth, count) == max_depth

\* max_depth - count
DepthMinus(max_depth, count) == [inf |-> max_depth.inf, n |-> max_depth.n - count]

Keys(obj) == [i \in 1..Len(obj.o) |-> obj.o[i].k]

InSeq(x, seq) == \E i \in 1..Len(seq) : seq[i] = x

\* FoldResult.remainder is None or an object; the chain in segments
RECURSIVE _collect_single_key_chain(_, _, _)
_collect_single_key_chain(segments, current, max_depth) ==
    IF BelowDepth(Len(segments), max_depth) /\ is_json_object(current) /\ Len(current.o) = 1
    THEN _collect_single_key_chain(Append(segments, current.o[1].k), current.o[1].v, max_depth)
    ELSE IF ~is_json_object(current) \/ is_empty_object(current)
    THEN [segments |-> segments, tail |-> None, leaf_value |-> current]
    ELSE [segments |-> segments, tail |-> current, leaf_value |-> current]

\* path_prefix + DOT when path_prefix is a non-empty string, else ''
PrefixDot(path_prefix) ==
    IF path_prefix # None /\ Len(path_prefix.v) > 0 THEN path_prefix.v \o <<DOT>> ELSE <<>>

try_fold_key_chain(key, value, siblings, opts, root_literal_keys, path_prefix, flatten_depth) ==
    IF opts.key_folding # "safe" \/ ~is_json_object(value) THEN None
    ELSE Bind(IF flatten_depth # None THEN flatten_depth.v ELSE opts.flatten_depth,
              LAMBDA effective_depth :
         Bind(_collect_single_key_chain(<<key>>, value, effective_depth), LAMBDA chain :
         Bind(chain.segments, LAMBDA segments :
         Bind(Join(DOT, segments), LAMBDA folded_key :
         Bind(PrefixDot(path_prefix) \o folded_key, LAMBDA absolute_path :
             IF Len(segments) < 2 \/ ~(\A i \in 1..Len(segments) : is_identifier_segment(segments[i]))
             THEN None
             ELSE IF InSeq(folded_key, siblings) THEN None
             ELSE IF root_literal_keys # None /\ absolute_path \in root_literal_keys.v THEN None
             ELSE Some([folded_key |-> folded_key,
                        remainder |-> chain.tail,
                        leaf_value |-> chain.leaf_value,
                        segment_count |-> Len(segments)]))))))

----------------------------------------------------------------------------
(* encode/core.py *)

\* A call of one of the encoder's mutually recursive functions: the function
\* and its arguments (the options are the same in every call).
Frame(fn, key, value, depth, siblings, root_literal_keys, path_prefix, flatten_depth) ==
    [fn |-> fn, key |-> key, value |-> value, depth |-> depth, siblings |-> siblings,
     root_literal_keys |-> root_literal_keys, path_prefix |-> path_prefix,
     flatten_depth |-> flatten_depth]

CallObject(value, depth, root_literal_keys, path_prefix, remaining_depth) ==
    Frame("encode_object", None, value, depth, None, root_literal_keys, path_prefix, remaining_depth)

CallPair(key, value, depth, siblings, root_literal_keys, path_prefix, flatten_depth) ==
    Frame("encode_key_value_pair", Some(key), value, depth, siblings, root_literal_keys,
          path_prefix, flatten_depth)

CallArray(key, value, depth) == Frame("encode_array", key, value, depth, None, None, None, None)

CallListItemValue(value, depth) ==
    Frame("encode_list_item_value", None, value, depth, None, None, None, None)

CallObjectAsListItem(obj, depth) ==
    Frame("encode_object_as_list_item", None, obj, depth, None, None, None, None)

\* EncodeCall(f, opts) is the list of lines the call f writes.
RECURSIVE EncodeCall(_, _)

\* is_tabular_array that compares the number of keys and not the keys
is_tabular_array_by_size(rows, header) ==
    \A r \in 1..Len(rows) :
        /\ Len(rows[r].o) = Len(header)
        /\ \A i \in 1..Len(rows[r].o) : is_json_primitive(rows[r].o[i].v)

is_tabular_array(rows, header) ==
    \A r \in 1..Len(rows) :
        /\ Len(rows[r].o) = Len(header)
        /\ \A h \in 1..Len(header) :
              \E i \in 1..Len(rows[r].o) :
                  rows[r].o[i].k = header[h] /\ is_json_primitive(rows[r].o[i].v)

\* None, or the field names
extract_tabular_header(rows) ==
    IF Len(rows) = 0 THEN None
    ELSE IF Len(rows[1].o) = 0 THEN None
    ELSE IF is_tabular_array(rows, Keys(rows[1])) THEN Some(Keys(rows[1])) ELSE None

\* row[key]
Get(row, key) == row.o[CHOOSE i \in 1..Len(row.o) : row.o[i].k = key].v

write_tabular_rows(rows, header, depth, opts) ==
    Flatten([r \in 1..Len(rows) |->
        push(opts.indent, depth,
             encode_and_join_primitives([h \in 1..Len(header) |-> Get(rows[r], header[h])],
                                        opts.delimiter))])

encode_array_of_objects_as_tabular(prefix, rows, header, depth, opts) ==
    push(opts.indent, depth, format_header(Len(rows), prefix, Some(header), opts.delimiter))
        \o write_tabular_rows(rows, header, depth + 1, opts)

encode_array_of_arrays_as_list_items(prefix, values, depth, opts) ==
    push(opts.indent, depth, format_header(Len(values), prefix, None, opts.delimiter))
        \o Flatten([i \in 1..Len(values) |->
              IF is_array_of_primitives(values[i])
              THEN push_list_item(opts.indent, depth + 1,
                                  encode_inline_array_line(values[i].a, opts.delimiter, None))
              ELSE <<>>])

encode_object(value, depth, opts, root_literal_keys, path_prefix, remaining_depth) ==
    Bind(Keys(value), LAMBDA keys :
    Bind(IF depth = 0 /\ root_literal_keys = None
         THEN Some({keys[i] : i \in {j \in 1..Len(keys) : Contains(keys[j], DOT)}})
         ELSE root_literal_keys,
         LAMBDA rlk :
    Bind(IF remaining_depth # None THEN remaining_depth.v ELSE opts.flatten_depth,
         LAMBDA effective_flatten_depth :
        Flatten([i \in 1..Len(value.o) |->
            EncodeCall(CallPair(value.o[i].k, value.o[i].v, depth, Some(keys), rlk, path_prefix,
                                Some(effective_flatten_depth)), opts)]))))

\* The plain rendering of a pair, after the folding attempt
EncodePlainPair(key, value, depth, opts, root_literal_keys, current_path, effective_flatten_depth) ==
    IF is_json_primitive(value)
    THEN push(opts.indent, depth, encode_key(key) \o <<":", " ">> \o encode_primitive(value, opts.delimiter))
    ELSE IF is_json_array(value) THEN EncodeCall(CallArray(Some(key), value, depth), opts)
    ELSE push(opts.indent, depth, encode_key(key) \o <<":">>)
           \o (IF ~is_empty_object(value)
               THEN EncodeCall(CallObject(value, depth + 1, root_literal_keys,
                                          Some(current_path), Some(effective_flatten_depth)), opts)
               ELSE <<>>)

\* The rendering of a pair whose key chain was folded
EncodeFoldedPair(fold_result, depth, opts, root_literal_keys, path_prefix, effective_flatten_depth) ==
    Bind(fold_result.folded_key, LAMBDA folded_key :
    Bind(encode_key(folded_key), LAMBDA encoded_folded_key :
    Bind(fold_result.leaf_value, LAMBDA leaf_value :
        IF fold_result.remainder = None
        THEN IF is_json_primitive(leaf_value)
             THEN push(opts.indent, depth,
                       encoded_folded_key \o <<":", " ">> \o encode_primitive(leaf_value, opts.delimiter))
             ELSE IF is_json_array(leaf_value)
             THEN EncodeCall(CallArray(Some(folded_key), leaf_value, depth), opts)
             ELSE push(opts.indent, depth, encoded_folded_key \o <<":">>)
        ELSE push(opts.indent, depth, encoded_folded_key \o <<":">>)
               \o EncodeCall(CallObject(fold_result.remainder, depth + 1, root_literal_keys,
                                        Some(IF path_prefix # None /\ Len(path_prefix.v) > 0
                                             THEN PrefixDot(path_prefix) \o folded_key
                                             ELSE folded_key),
                                        Some(DepthMinus(effective_flatten_depth,
                                                        fold_result.segment_count))), opts))))

encode_key_value_pair(key, value, depth, opts, siblings, root_literal_keys, path_prefix, flatten_depth) ==
    Bind(PrefixDot(path_prefix) \o key, LAMBDA current_path :
    Bind(IF flatten_depth # None THEN flatten_depth.v ELSE opts.flatten_depth,
         LAMBDA effective_flatten_depth :
    Bind(IF opts.key_folding = "safe" /\ siblings # None /\ Len(siblings.v) > 0
         THEN try_fold_key_chain(key, value, siblings.v, opts, root_literal_keys, path_prefix,
                                 Some(effective_flatten_depth))
         ELSE None,
         LAMBDA fold_result :
        IF fold_result # None
        THEN EncodeFoldedPair(fold_result.v, depth, opts, root_literal_keys, path_prefix,
                              effective_flatten_depth)
        ELSE EncodePlainPair(key, value, depth, opts, root_literal_keys, current_path,
                             effective_flatten_depth))))

encode_mixed_array_as_list_items(prefix, items, depth, opts) ==
    push(opts.indent, depth, format_header(Len(items), prefix, None, opts.delimiter))
        \o Flatten([i \in 1..Len(items) |-> EncodeCall(CallListItemValue(items[i], depth + 1), opts)])

\* encode_array without rule (3): uniform objects are written as list items
encode_array_without_tabular(key, value, depth, opts) ==
    IF Len(value.a) = 0
    THEN push(opts.indent, depth, format_header(0, key, None, opts.delimiter))
    ELSE IF is_array_of_primitives(value)
    THEN push(opts.indent, depth, encode_inline_array_line(value.a, opts.delimiter, key))
    ELSE IF is_array_of_arrays(value) /\ \A i \in 1..Len(value.a) : is_array_of_primitives(value.a[i])
    THEN encode_array_of_arrays_as_list_items(key, value.a, depth, opts)
    ELSE encode_mixed_array_as_list_items(key, value.a, depth, opts)

encode_array(key, value, depth, opts) ==
    IF Len(value.a) = 0
    THEN push(opts.indent, depth, format_header(0, key, None, opts.delimiter))
    ELSE IF is_array_of_primitives(value)
    THEN push(opts.indent, depth, encode_inline_array_line(value.a, opts.delimiter, key))
    ELSE IF is_array_of_arrays(value) /\ \A i \in 1..Len(value.a) : is_array_of_primitives(value.a[i])
    THEN encode_array_of_arrays_as_list_items(key, value.a, depth, opts)
    ELSE IF is_array_of_objects(value)
    THEN IF extract_tabular_header(value.a) # None
         THEN encode_array_of_objects_as_tabular(key, value.a, extract_tabular_header(value.a).v,
                                                 depth, opts)
         ELSE encode_mixed_array_as_list_items(key, value.a, depth, opts)
    ELSE encode_mixed_array_as_list_items(key, value.a, depth, opts)

\* The "- " line of a list-item object and the lines of its first value
EncodeFirstField(first_key, first_value, depth, opts) ==
    Bind(encode_key(first_key), LAMBDA encoded_key :
    Bind(encoded_key \o <<"[">> \o IntStr(Len(first_value.a)) \o <<"]", ":">>, LAMBDA bare_header :
        IF is_json_primitive(first_value)
        THEN push_list_item(opts.indent, depth,
                            encoded_key \o <<":", " ">> \o encode_primitive(first_value, opts.delimiter))
        ELSE IF is_json_array(first_value)
        THEN IF is_array_of_primitives(first_value)
             THEN push_list_item(opts.indent, depth,
                                 encode_inline_array_line(first_value.a, opts.delimiter, Some(first_key)))
             ELSE IF is_array_of_objects(first_value)
             THEN IF extract_tabular_header(first_value.a) # None
                  THEN push_list_item(opts.indent, depth,
                                      format_header(Len(first_value.a), Some(first_key),
                                                    extract_tabular_header(first_value.a), opts.delimiter))
                         \o write_tabular_rows(first_value.a, extract_tabular_header(first_value.a).v,
                                               depth + 1, opts)
                  ELSE push_list_item(opts.indent, depth, bare_header)
                         \o Flatten([i \in 1..Len(first_value.a) |->
                                EncodeCall(CallObjectAsListItem(first_value.a[i], depth + 1), opts)])
             ELSE push_list_item(opts.indent, depth, bare_header)
                    \o Flatten([i \in 1..Len(first_value.a) |->
                           EncodeCall(CallListItemValue(first_value.a[i], depth + 1), opts)])
        ELSE push_list_item(opts.indent, depth, encoded_key \o <<":">>)
               \o (IF ~is_empty_object(first_value)
                   THEN EncodeCall(CallObject(first_value, depth + 2, None, None, None), opts)
                   ELSE <<>>)))

encode_object_as_list_item(obj, depth, opts) ==
    IF is_empty_object(obj) THEN push(opts.indent, depth, <<LIST_ITEM_MARKER>>)
    ELSE EncodeFirstField(obj.o[1].k, obj.o[1].v, depth, opts)
           \o Flatten([i \in 1..(Len(obj.o) - 1) |->
                  EncodeCall(CallPair(obj.o[i + 1].k, obj.o[i + 1].v, depth + 1,
                                      None, None, None, None), opts)])

encode_list_item_value(value, depth, opts) ==
    IF is_json_primitive(value)
    THEN push_list_item(opts.indent, depth, encode_primitive(value, opts.delimiter))
    ELSE IF is_json_array(value) /\ is_array_of_primitives(value)
    THEN push_list_item(opts.indent, depth, encode_inline_array_line(value.a, opts.delimiter, None))
    ELSE IF is_json_object(value) THEN EncodeCall(CallObjectAsListItem(value, depth), opts)
    ELSE <<>>

EncodeCall(f, opts) ==
    CASE f.fn = "encode_object" ->
            encode_object(f.value, f.depth, opts, f.root_literal_keys, f.path_prefix, f.flatten_depth)
      [] f.fn = "encode_key_value_pair" ->
            encode_key_value_pair(f.key.v, f.value, f.depth, opts, f.siblings, f.root_literal_keys,
                                  f.path_prefix, f.flatten_depth)
      [] f.fn = "encode_array" -> encode_array(f.key, f.value, f.depth, opts)
      [] f.fn = "encode_list_item_value" -> encode_list_item_value(f.value, f.depth, opts)
      [] f.fn = "encode_object_as_list_item" -> encode_object_as_list_item(f.value, f.depth, opts)

encode_value(value, opts) ==
    IF is_json_primitive(value) THEN encode_primitive(value, opts.delimiter)
    ELSE IF is_json_array(value) THEN to_string(EncodeCall(CallArray(None, value, 0), opts))
    ELSE to_string(EncodeCall(CallObject(value, 0, None, None, None), opts))

\* encode/__init__.py: resolve_encode_options gives each absent option its default
DefaultEncodeOptions ==
    [indent |-> 2, delimiter |-> DEFAULT_DELIMITER, key_folding |-> "off", flatten_depth |-> Unbounded]

\* The input is a Value-Model value, which normalize_value returns unchanged.
encode(value, opts) == encode_value(value, opts)

\* key token parsers: Ok([key, end, is_quoted]) or a SyntaxError
parse_unquoted_key(content, start) ==
    Bind(Find(content, COLON, start), LAMBDA pos :
        IF pos = -1 THEN Err("SyntaxError", "MissingColon")
        ELSE Ok([key |-> Strip(Slice(content, start, pos)), end |-> pos + 1, is_quoted |-> FALSE]))

parse_quoted_key(content, start) ==
    Bind(find_closing_quote(content, start), LAMBDA closing :
    Bind(unescape_string(Slice(content, start + 1, closing)), LAMBDA key :
    Bind(closing + 1, LAMBDA pos :
        IF closing = -1 THEN Err("SyntaxError", "UnterminatedKey")
        ELSE IF ~key.ok THEN key
        ELSE IF pos >= Len(content) \/ At(content, pos) # COLON THEN Err("SyntaxError", "MissingColon")
        ELSE Ok([key |-> key.v, end |-> pos + 1, is_quoted |-> TRUE]))))

parse_key_token(content, start) ==
    IF start >= Len(content) THEN Err("IndexError", "EmptyKeyToken")
    ELSE IF At(content, start) = DOUBLE_QUOTE THEN parse_quoted_key(content, start)
    ELSE parse_unquoted_key(content, start)

is_array_header_after_hyphen(content) ==
    StartsWithChar(Strip(content), OPEN_BRACKET) /\ find_unquoted_char(content, COLON, 0) # -1

is_object_first_field_after_hyphen(content) == find_unquoted_char(content, COLON, 0) # -1

\* The first result that is an error, or Ok of the values
RECURSIVE AllOk(_, _)
AllOk(results, acc) ==
    IF Len(results) = 0 THEN Ok(acc)
    ELSE IF ~results[1].ok THEN results[1]
    ELSE AllOk(Tail(results), Append(acc, results[1].v))

\* bracket_start: where the bracket segment opens, after a quoted key if
\* there is one; -1 also when the quoted key does not end or "[" does not
\* follow it
BracketStart(content) ==
    Bind(LStrip(content), LAMBDA trimmed :
    Bind(find_closing_quote(trimmed, 0), LAMBDA closing :
    Bind(From(trimmed, closing + 1), LAMBDA after_quote :
    Bind(Len(content) - Len(trimmed), LAMBDA leading_ws :
    Bind(leading_ws + closing + 1, LAMBDA key_end_index :
        IF StartsWithChar(trimmed, DOUBLE_QUOTE)
        THEN IF closing = -1 THEN -1
             ELSE IF ~StartsWithChar(after_quote, OPEN_BRACKET) THEN -1
             ELSE Find(content, OPEN_BRACKET, key_end_index)
        ELSE Find(content, OPEN_BRACKET, 0))))))

\* colon_index: the colon after the bracket segment and the braces
ColonIndex(content, bracket_end, brace_start) ==
    Bind(Find(content, COLON, bracket_end), LAMBDA colon_after_brackets :
    Bind(Find(content, CLOSE_BRACE, brace_start), LAMBDA found_brace_end :
    Bind(IF /\ brace_start # -1
            /\ (colon_after_brackets = -1 \/ brace_start < colon_after_brackets)
            /\ found_brace_end # -1
         THEN found_brace_end + 1
         ELSE bracket_end + 1,
         LAMBDA brace_end :
        Find(content, COLON, Max(bracket_end, brace_end)))))

\* key: Ok(None), or Ok(Some(key)) of the text before the bracket segment
HeaderKey(content, bracket_start) ==
    Bind(Strip(Slice(content, 0, bracket_start)), LAMBDA raw_key :
        IF bracket_start > 0
        THEN IF StartsWithChar(raw_key, DOUBLE_QUOTE)
             THEN Bind(parse_string_literal(raw_key), LAMBDA k :
                      IF k.ok THEN Ok(Some(k.v)) ELSE k)
             ELSE IF Len(raw_key) > 0 THEN Ok(Some(raw_key)) ELSE Ok(None)
        ELSE Ok(None))

\* fields: Ok(None), or Ok(Some(names)) of the names between braces that
\* close before the colon
ParsedFields(content, brace_start, colon_index, delimiter) ==
    Bind(Find(content, CLOSE_BRACE, brace_start), LAMBDA found_brace_end :
        IF /\ brace_start # -1 /\ brace_start < colon_index
           /\ found_brace_end # -1 /\ found_brace_end < colon_index
        THEN Bind(parse_delimited_values(Slice(content, brace_start + 1, found_brace_end),
                                         delimiter),
                  LAMBDA raw_fields :
             Bind(SelectSeq(raw_fields, LAMBDA f : Len(Strip(f)) > 0), LAMBDA kept :
             Bind(AllOk([i \in 1..Len(kept) |-> parse_string_literal(Strip(kept[i]))], <<>>),
                  LAMBDA fs :
                 IF fs.ok THEN Ok(Some(fs.v)) ELSE fs)))
        ELSE Ok(None))

\* Ok(None) when the line is no array header, Ok(Some([header, inline])) when
\* it is one, an error when a quoted key or field name is malformed.
\* A header is [key, length, delimiter, fields], key and fields optional.
parse_array_header_line(content, default_delimiter) ==
    Bind(BracketStart(content), LAMBDA bracket_start :
    Bind(Find(content, CLOSE_BRACKET, bracket_start), LAMBDA bracket_end :
    Bind(Find(content, OPEN_BRACE, bracket_end), LAMBDA brace_start :
    Bind(ColonIndex(content, bracket_end, brace_start), LAMBDA colon_index :
    Bind(HeaderKey(content, bracket_start), LAMBDA key :
    Bind(Strip(From(content, colon_index + 1)), LAMBDA after_colon :
    Bind(parse_bracket_segment(Slice(content, bracket_start + 1, bracket_end),
                               default_delimiter),
         LAMBDA segment :
    Bind(ParsedFields(content, brace_start, colon_index, segment.v.delimiter), LAMBDA fields :
        IF bracket_start = -1 THEN Ok(None)
        ELSE IF bracket_end = -1 THEN Ok(None)
        ELSE IF colon_index = -1 THEN Ok(None)
        ELSE IF ~key.ok THEN key
        ELSE IF ~segment.ok THEN Ok(None)
        ELSE IF ~fields.ok THEN fields
        ELSE Ok(Some([header |-> [key |-> key.v, length |-> segment.v.length,
                                  delimiter |-> segment.v.delimiter, fields |-> fields.v],
                      inline |-> IF Len(after_colon) > 0 THEN Some(after_colon) ELSE None]))
    ))))))))

----------------------------------------------------------------------------
(* decode/scanner.py *)

\* number of leading spaces of raw
RECURSIVE CountIndent(_, _)
CountIndent(raw, indent) ==
    IF indent < Len(raw) /\ At(raw, indent) = SPACE THEN CountIndent(raw, indent + 1) ELSE indent

\* the leading run of spaces and tabs of raw
RECURSIVE LeadingWs(_)
LeadingWs(raw) ==
    IF Len(raw) > 0 /\ raw[1] \in {SPACE, TAB} THEN <<raw[1]>> \o LeadingWs(Tail(raw)) ELSE <<>>

DepthOf(indent, indent_size) == IF indent_size # 0 THEN indent \div indent_size ELSE 0

\* The loop of to_parsed_lines over the raw lines from the one numbered line_number
RECURSIVE ScanFrom(_, _, _, _, _, _)
ScanFrom(raws, line_number, indent_size, strict, parsed, blanks) ==
    IF line_number > Len(raws) THEN Ok([lines |-> parsed, blanks |-> blanks])
    ELSE LET raw == raws[line_number]
             indent == CountIndent(raw, 0)
             content == From(raw, indent)
             depth == DepthOf(indent, indent_size)
         IN  IF Len(Strip(content)) = 0
             THEN ScanFrom(raws, line_number + 1, indent_size, strict, parsed,
                           Append(blanks, [line_number |-> line_number, indent |-> indent,
                                           depth |-> depth]))
             ELSE IF strict /\ Contains(LeadingWs(raw), TAB)
             THEN Err("SyntaxError", "TabInIndentation")
             ELSE IF strict /\ indent_size # 0 /\ indent % indent_size # 0
             THEN Err("SyntaxError", "IndentNotMultiple")
             ELSE ScanFrom(raws, line_number + 1, indent_size, strict,
                           Append(parsed, [raw |-> raw, indent |-> indent, content |-> content,
                                           depth |-> depth, line_number |-> line_number]),
                           blanks)

\* to_parsed_lines without the early return for a blank source
to_parsed_lines_every_line(source, indent_size, strict) ==
    ScanFrom(Split(source, NEWLINE), 1, indent_size, strict, <<>>, <<>>)

to_parsed_lines(source, indent_size, strict) ==
    IF Len(Strip(source)) = 0 THEN Ok([lines |-> <<>>, blanks |-> <<>>])
    ELSE ScanFrom(Split(source, NEWLINE), 1, indent_size, strict, <<>>, <<>>)

\* LineCursor: the index into the parsed lines.  Two history fields record
\* what the decoder did with it: log, the indices at which advance() and
\* next() were executed, and steps, the loop iterations and the descents
\* into nested objects and arrays.
NewCursor == [index |-> 0, log |-> <<>>, steps |-> <<>>]

at_end(cx, cur) == cur.index >= Len(cx.lines)

\* peek() is defined when HasLine holds; it is None otherwise
HasLine(cx, cur) == cur.index < Len(cx.lines)

peek(cx, cur) == cx.lines[cur.index + 1]

\* advance() that moves the index two lines on
advance_by_two(cur) ==
    [index |-> cur.index + 2, log |-> Append(cur.log, cur.index), steps |-> cur.steps]

advance(cur) ==
    [index |-> cur.index + 1, log |-> Append(cur.log, cur.index), steps |-> cur.steps]

\* current(), defined when index > 0
current(cx, cur) == cx.lines[cur.index]

----------------------------------------------------------------------------
(* decode/validation.py *)

\* TRUE when assert_expected_count raises
CountMismatch(actual, expected, opts) == opts.strict /\ actual # expected

\* TRUE when validate_no_extra_list_items raises
ExtraListItems(cx, cur, item_depth) ==
    /\ HasLine(cx, cur)
    /\ peek(cx, cur).depth = item_depth
    /\ StartsWith(peek(cx, cur).content, LIST_ITEM_PREFIX)

_is_data_row(content, delimiter) ==
    Bind(Find(content, COLON, 0), LAMBDA colon_pos :
    Bind(Find(content, delimiter, 0), LAMBDA delimiter_pos :
        IF colon_pos = -1 THEN TRUE
        ELSE IF delimiter_pos # -1 /\ delimiter_pos < colon_pos THEN TRUE
        ELSE FALSE))

\* TRUE when validate_no_extra_tabular_rows raises
ExtraTabularRows(cx, cur, row_depth, header) ==
    /\ HasLine(cx, cur)
    /\ peek(cx, cur).depth = row_depth
    /\ ~StartsWith(peek(cx, cur).content, LIST_ITEM_PREFIX)
    /\ _is_data_row(peek(cx, cur).content, header.delimiter)

\* validate_no_blank_lines_in_range that looks only at the line after the
\* first line of the body
BlankLineInRange_after_first_line(start_line, end_line, blank_lines, strict) ==
    /\ strict
    /\ \E i \in 1..Len(blank_lines) :
          blank_lines[i].line_number = start_line + 1 /\ blank_lines[i].line_number < end_line

\* TRUE when validate_no_blank_lines_in_range raises
BlankLineInRange(start_line, end_line, blank_lines, strict) ==
    /\ strict
    /\ \E i \in 1..Len(blank_lines) :
          start_line < blank_lines[i].line_number /\ blank_lines[i].line_number < end_line

----------------------------------------------------------------------------
(* decode/decoders.py.  cx holds what a decode call never changes: the     *)
(* parsed lines, the blank lines and the options.  Every decoder takes the *)
(* cursor and returns Ok([v, cur]) with the cursor after it, or the error. *)

QUOTED_KEY_MARKER == <<"QUOTED_KEY_MARKER">>

QuotedKeys(q) == [t |-> "quoted_keys", q |-> q]

HasKey(o, key) == \E i \in 1..Len(o) : o[i].k = key

\* o[key] = value on the entries of a dict
ObjSet(o, key, value) ==
    IF HasKey(o, key)
    THEN [i \in 1..Len(o) |-> IF o[i].k = key THEN [k |-> key, v |-> value] ELSE o[i]]
    ELSE Append(o, [k |-> key, v |-> value])

\* the entries with the marker entry added when some key was quoted
WithMarker(o, quoted_keys) ==
    IF quoted_keys # {} THEN ObjSet(o, QUOTED_KEY_MARKER, QuotedKeys(quoted_keys)) ELSE o

Done(v, cur) == [ok |-> TRUE, v |-> v, cur |-> cur]

\* an exception leaves the decoder: the error, with the cursor as it stood
\* when the exception was raised
Raised(r, cur) ==
    IF r.ok \/ "cur" \in DOMAIN r THEN r
    ELSE [ok |-> FALSE, exc |-> r.exc, err |-> r.err, cur |-> cur]

\* history: an iteration of a decoder loop that began with the cursor at
\* before and goes on to the next iteration with the cursor at after
Iterated(loop, before, after) ==
    [after EXCEPT !.steps = Append(@, [step |-> loop, from |-> before.index, to |-> after.index])]

\* history: the decoder of a nested object or array body is entered
Descended(body, cur) ==
    [cur EXCEPT !.steps = Append(@, [step |-> body, from |-> cur.index, to |-> cur.index])]

_is_key_value_line(line) ==
    Bind(line.content, LAMBDA content :
    Bind(find_closing_quote(content, 0), LAMBDA closing :
        IF StartsWithChar(content, DOUBLE_QUOTE)
        THEN IF closing = -1 THEN FALSE ELSE Contains(From(content, closing + 1), COLON)
        ELSE Contains(content, COLON)))

_decode_inline_primitive_array(header, inline_values, opts) ==
    IF Len(Strip(inline_values)) = 0
    THEN IF CountMismatch(0, header.length, opts) THEN Err("RangeError", "CountMismatch")
         ELSE Ok(VArr(<<>>))
    ELSE Bind(parse_delimited_values(inline_values, header.delimiter), LAMBDA values :
         Bind(AllOk(map_row_values_to_primitives(values), <<>>), LAMBDA primitives :
             IF ~primitives.ok THEN primitives
             ELSE IF CountMismatch(Len(primitives.v), header.length, opts)
             THEN Err("RangeError", "CountMismatch")
             ELSE Ok(VArr(primitives.v))))

\* for idx, field in enumerate(fields): obj[field] = primitives[idx]
RECURSIVE RowObject(_, _, _, _)
RowObject(fields, primitives, idx, o) ==
    IF idx > Len(fields) THEN Ok(VObj(o))
    ELSE IF idx > Len(primitives) THEN Err("IndexError", "RowTooShort")
    ELSE RowObject(fields, primitives, idx + 1, ObjSet(o, fields[idx], primitives[idx]))

HeaderFields(header) == IF header.fields # None THEN header.fields.v ELSE <<>>

\* the loop over the rows that reads a row and leaves the cursor on it
RECURSIVE TabularLoop_without_advance(_, _, _, _, _, _, _)
TabularLoop_without_advance(header, cx, cur, row_depth, objects, start_line, end_line) ==
    IF ~at_end(cx, cur) /\ Len(objects) < header.length
          /\ peek(cx, cur).depth >= row_depth /\ peek(cx, cur).depth = row_depth
    THEN Bind(peek(cx, cur), LAMBDA line :
         Bind(parse_delimited_values(line.content, header.delimiter), LAMBDA values :
         Bind(AllOk(map_row_values_to_primitives(values), <<>>), LAMBDA primitives :
         Bind(RowObject(HeaderFields(header), primitives.v, 1, <<>>), LAMBDA obj :
             IF CountMismatch(Len(values), Len(HeaderFields(header)), cx.opts)
             THEN Raised(Err("RangeError", "CountMismatch"), advance(cur))
             ELSE IF ~primitives.ok THEN Raised(primitives, advance(cur))
             ELSE IF ~obj.ok THEN Raised(obj, advance(cur))
             ELSE TabularLoop_without_advance(header, cx, Iterated("rows", cur, cur), row_depth,
                              Append(objects, obj.v),
                              IF start_line = None THEN Some(line.line_number) ELSE start_line,
                              Some(line.line_number))))))
    ELSE IF CountMismatch(Len(objects), header.length, cx.opts)
    THEN Raised(Err("RangeError", "CountMismatch"), cur)
    ELSE IF cx.opts.strict /\ start_line # None /\ end_line # None
            /\ BlankLineInRange(start_line.v, end_line.v, cx.blanks, cx.opts.strict)
    THEN Raised(Err("SyntaxError", "BlankLineInArray"), cur)
    ELSE IF cx.opts.strict /\ ExtraTabularRows(cx, cur, row_depth, header)
    THEN Raised(Err("RangeError", "TrailingItems"), cur)
    ELSE Done(VArr(objects), cur)

RECURSIVE TabularLoop(_, _, _, _, _, _, _)
TabularLoop(header, cx, cur, row_depth, objects, start_line, end_line) ==
    IF ~at_end(cx, cur) /\ Len(objects) < header.length
          /\ peek(cx, cur).depth >= row_depth /\ peek(cx, cur).depth = row_depth
    THEN Bind(peek(cx, cur), LAMBDA line :
         Bind(parse_delimited_values(line.content, header.delimiter), LAMBDA values :
         Bind(AllOk(map_row_values_to_primitives(values), <<>>), LAMBDA primitives :
         Bind(RowObject(HeaderFields(header), primitives.v, 1, <<>>), LAMBDA obj :
             IF CountMismatch(Len(values), Len(HeaderFields(header)), cx.opts)
             THEN Raised(Err("RangeError", "CountMismatch"), advance(cur))
             ELSE IF ~primitives.ok THEN Raised(primitives, advance(cur))
             ELSE IF ~obj.ok THEN Raised(obj, advance(cur))
             ELSE TabularLoop(header, cx, Iterated("rows", cur, advance(cur)), row_depth,
                              Append(objects, obj.v),
                              IF start_line = None THEN Some(line.line_number) ELSE start_line,
                              Some(line.line_number))))))
    ELSE IF CountMismatch(Len(objects), header.length, cx.opts)
    THEN Raised(Err("RangeError", "CountMismatch"), cur)
    ELSE IF cx.opts.strict /\ start_line # None /\ end_line # None
            /\ BlankLineInRange(start_line.v, end_line.v, cx.blanks, cx.opts.strict)
    THEN Raised(Err("SyntaxError", "BlankLineInArray"), cur)
    ELSE IF cx.opts.strict /\ ExtraTabularRows(cx, cur, row_depth, header)
    THEN Raised(Err("RangeError", "TrailingItems"), cur)
    ELSE Done(VArr(objects), cur)

_decode_tabular_array(header, cx, cur, base_depth) ==
    TabularLoop(header, cx, cur, base_depth + 1, <<>>, None, None)

RECURSIVE _decode_object(_, _, _)
RECURSIVE ObjectLoop(_, _, _, _, _, _)
RECURSIVE _decode_key_value(_, _, _, _)
RECURSIVE decode_array_from_header(_, _, _, _, _)
RECURSIVE _decode_list_array(_, _, _, _)
RECURSIVE ListLoop(_, _, _, _, _, _, _)
RECURSIVE _decode_list_item(_, _, _)
RECURSIVE _decode_object_from_list_item(_, _, _, _)
RECURSIVE ItemFieldsLoop(_, _, _, _, _)

ObjectLoop(cx, cur, base_depth, o, quoted_keys, computed_depth) ==
    IF at_end(cx, cur) \/ peek(cx, cur).depth < base_depth
    THEN Done(VObj(WithMarker(o, quoted_keys)), cur)
    ELSE Bind(peek(cx, cur), LAMBDA line :
         Bind(IF computed_depth = None /\ line.depth >= base_depth
              THEN Some(line.depth) ELSE computed_depth,
              LAMBDA cd :
         Bind(_decode_key_value(line.content, cx, advance(cur), cd.v), LAMBDA kv :
             IF line.depth = cd.v
             THEN IF ~kv.ok THEN kv
                  ELSE ObjectLoop(cx, Iterated("siblings", cur, kv.cur), base_depth,
                                  ObjSet(o, kv.v.key, kv.v.value),
                                  IF kv.v.is_quoted /\ Contains(kv.v.key, DOT)
                                  THEN quoted_keys \cup {kv.v.key} ELSE quoted_keys,
                                  cd)
             ELSE Done(VObj(WithMarker(o, quoted_keys)), cur))))

_decode_object(cx, cur, base_depth) == ObjectLoop(cx, cur, base_depth, <<>>, {}, None)

\* Ok([v |-> [key, value, follow_depth, is_quoted], cur])
_decode_key_value(content, cx, cur, base_depth) ==
    Bind(parse_array_header_line(content, DEFAULT_DELIMITER), LAMBDA header_info :
    Bind(header_info.v # None /\ header_info.v.v.header.key # None
            /\ Len(header_info.v.v.header.key.v) > 0,
         LAMBDA isHeader :
    Bind(header_info.v.v.header, LAMBDA header :
    Bind(decode_array_from_header(header, header_info.v.v.inline, cx, cur, base_depth),
         LAMBDA decoded :
    Bind(parse_key_token(content, 0), LAMBDA kt :
    Bind(Strip(From(content, kt.v.end)), LAMBDA rest :
    Bind(_decode_object(cx, Descended("object", cur), base_depth + 1), LAMBDA nested :
    Bind(parse_primitive_token(rest), LAMBDA prim :
        IF ~header_info.ok THEN Raised(header_info, cur)
        ELSE IF isHeader
        THEN IF ~decoded.ok THEN decoded
             ELSE Done([key |-> header.key.v, value |-> decoded.v,
                        follow_depth |-> base_depth + 1, is_quoted |-> FALSE], decoded.cur)
        ELSE IF ~kt.ok THEN Raised(kt, cur)
        ELSE IF Len(rest) = 0
        THEN IF HasLine(cx, cur) /\ peek(cx, cur).depth > base_depth
             THEN IF ~nested.ok THEN nested
                  ELSE Done([key |-> kt.v.key, value |-> nested.v,
                             follow_depth |-> base_depth + 1, is_quoted |-> kt.v.is_quoted],
                            nested.cur)
             ELSE Done([key |-> kt.v.key, value |-> VObj(<<>>),
                        follow_depth |-> base_depth + 1, is_quoted |-> kt.v.is_quoted], cur)
        ELSE IF ~prim.ok THEN Raised(prim, cur)
        ELSE Done([key |-> kt.v.key, value |-> prim.v,
                   follow_depth |-> base_depth + 1, is_quoted |-> kt.v.is_quoted], cur)))))))))

decode_array_from_header(header, inline_values, cx, cur, base_depth) ==
    IF inline_values # None
    THEN Bind(_decode_inline_primitive_array(header, inline_values.v, cx.opts), LAMBDA r :
             IF r.ok THEN Done(r.v, cur) ELSE Raised(r, cur))
    ELSE IF header.fields # None /\ Len(header.fields.v) > 0
    THEN _decode_tabular_array(header, cx, Descended("tabular", cur), base_depth)
    ELSE _decode_list_array(header, cx, Descended("list", cur), base_depth)

ListLoop(header, cx, cur, item_depth, items, start_line, end_line) ==
    IF ~at_end(cx, cur) /\ Len(items) < header.length
          /\ peek(cx, cur).depth >= item_depth
          /\ peek(cx, cur).depth = item_depth
          /\ (StartsWith(peek(cx, cur).content, LIST_ITEM_PREFIX)
                \/ peek(cx, cur).content = <<"-">>)
    THEN Bind(peek(cx, cur), LAMBDA line :
         Bind(_decode_list_item(cx, cur, item_depth), LAMBDA item :
             IF ~item.ok THEN item
             ELSE ListLoop(header, cx, Iterated("items", cur, item.cur), item_depth,
                           Append(items, item.v),
                           IF start_line = None THEN Some(line.line_number) ELSE start_line,
                           IF item.cur.index > 0
                           THEN Some(current(cx, item.cur).line_number)
                           ELSE Some(line.line_number))))
    ELSE IF CountMismatch(Len(items), header.length, cx.opts)
    THEN Raised(Err("RangeError", "CountMismatch"), cur)
    ELSE IF cx.opts.strict /\ start_line # None /\ end_line # None
            /\ BlankLineInRange(start_line.v, end_line.v, cx.blanks, cx.opts.strict)
    THEN Raised(Err("SyntaxError", "BlankLineInArray"), cur)
    ELSE IF cx.opts.strict /\ ExtraListItems(cx, cur, item_depth)
    THEN Raised(Err("RangeError", "TrailingItems"), cur)
    ELSE Done(VArr(items), cur)

_decode_list_array(header, cx, cur, base_depth) ==
    ListLoop(header, cx, cur, base_depth + 1, <<>>, None, None)

_decode_list_item(cx, cur, base_depth) ==
    IF ~HasLine(cx, cur) THEN Raised(Err("ReferenceError", "ExpectedListItem"), cur)
    ELSE Bind(peek(cx, cur), LAMBDA line :
         Bind(advance(cur), LAMBDA after :
         Bind(From(line.content, Len(LIST_ITEM_PREFIX)), LAMBDA after_hyphen :
         Bind(parse_array_header_line(after_hyphen, DEFAULT_DELIMITER), LAMBDA header_info :
         Bind(parse_primitive_token(after_hyphen), LAMBDA prim :
             IF line.content = <<"-">> THEN Done(VObj(<<>>), after)
             ELSE IF ~StartsWith(line.content, LIST_ITEM_PREFIX)
             THEN Raised(Err("SyntaxError", "ExpectedListItemPrefix"), after)
             ELSE IF Len(Strip(after_hyphen)) = 0 THEN Done(VObj(<<>>), after)
             ELSE IF is_array_header_after_hyphen(after_hyphen) /\ ~header_info.ok
             THEN Raised(header_info, after)
             ELSE IF is_array_header_after_hyphen(after_hyphen) /\ header_info.v # None
             THEN decode_array_from_header(header_info.v.v.header, header_info.v.v.inline,
                                           cx, after, base_depth)
             ELSE IF is_object_first_field_after_hyphen(after_hyphen)
             THEN _decode_object_from_list_item(line, cx, after, base_depth)
             ELSE IF ~prim.ok THEN Raised(prim, after)
             ELSE Done(prim.v, after))))))

ItemFieldsLoop(cx, cur, follow_depth, o, quoted_keys) ==
    IF ~at_end(cx, cur) /\ peek(cx, cur).depth >= follow_depth
          /\ peek(cx, cur).depth = follow_depth
          /\ ~StartsWith(peek(cx, cur).content, LIST_ITEM_PREFIX)
    THEN Bind(peek(cx, cur), LAMBDA line :
         Bind(_decode_key_value(line.content, cx, advance(cur), follow_depth), LAMBDA kv :
             IF ~kv.ok THEN kv
             ELSE ItemFieldsLoop(cx, Iterated("fields", cur, kv.cur), follow_depth,
                                 ObjSet(o, kv.v.key, kv.v.value),
                                 IF kv.v.is_quoted /\ Contains(kv.v.key, DOT)
                                 THEN quoted_keys \cup {kv.v.key} ELSE quoted_keys)))
    ELSE Done(VObj(WithMarker(o, quoted_keys)), cur)

_decode_object_from_list_item(first_line, cx, cur, base_depth) ==
    Bind(From(first_line.content, Len(LIST_ITEM_PREFIX)), LAMBDA after_hyphen :
    Bind(_decode_key_value(after_hyphen, cx, cur, base_depth), LAMBDA kv :
        IF ~kv.ok THEN kv
        ELSE ItemFieldsLoop(cx, kv.cur, kv.v.follow_depth,
                            <<[k |-> kv.v.key, v |-> kv.v.value]>>,
                            IF kv.v.is_quoted /\ Contains(kv.v.key, DOT) THEN {kv.v.key} ELSE {})))

\* decode_value_from_lines that reads no lines as the empty object
decode_value_from_lines_empty_object(cx, cur) ==
    IF ~HasLine(cx, cur) THEN Done(VObj(<<>>), cur)
    ELSE Bind(peek(cx, cur), LAMBDA first :
         Bind(parse_array_header_line(first.content, DEFAULT_DELIMITER), LAMBDA header_info :
         Bind(parse_primitive_token(Strip(first.content)), LAMBDA prim :
             IF is_array_header_after_hyphen(first.content) /\ ~header_info.ok THEN header_info
             ELSE IF is_array_header_after_hyphen(first.content) /\ header_info.v # None
             THEN decode_array_from_header(header_info.v.v.header, header_info.v.v.inline,
                                           cx, advance(cur), 0)
             ELSE IF Len(cx.lines) = 1 /\ ~_is_key_value_line(first)
             THEN IF prim.ok THEN Done(prim.v, cur) ELSE prim
             ELSE _decode_object(cx, cur, 0))))

\* decode_value_from_lines that reads every single line as a primitive
decode_value_from_lines_single_line(cx, cur) ==
    IF ~HasLine(cx, cur) THEN Err("ReferenceError", "EmptyInput")
    ELSE Bind(peek(cx, cur), LAMBDA first :
         Bind(parse_array_header_line(first.content, DEFAULT_DELIMITER), LAMBDA header_info :
         Bind(parse_primitive_token(Strip(first.content)), LAMBDA prim :
             IF is_array_header_after_hyphen(first.content) /\ ~header_info.ok THEN header_info
             ELSE IF is_array_header_after_hyphen(first.content) /\ header_info.v # None
             THEN decode_array_from_header(header_info.v.v.header, header_info.v.v.inline,
                                           cx, advance(cur), 0)
             ELSE IF Len(cx.lines) = 1
             THEN IF prim.ok THEN Done(prim.v, cur) ELSE prim
             ELSE _decode_object(cx, cur, 0))))

decode_value_from_lines(cx, cur) ==
    IF ~HasLine(cx, cur) THEN Raised(Err("ReferenceError", "EmptyInput"), cur)
    ELSE Bind(peek(cx, cur), LAMBDA first :
         Bind(parse_array_header_line(first.content, DEFAULT_DELIMITER), LAMBDA header_info :
         Bind(parse_primitive_token(Strip(first.content)), LAMBDA prim :
             IF is_array_header_after_hyphen(first.content) /\ ~header_info.ok
             THEN Raised(header_info, cur)
             ELSE IF is_array_header_after_hyphen(first.content) /\ header_info.v # None
             THEN decode_array_from_header(header_info.v.v.header, header_info.v.v.inline,
                                           cx, advance(cur), 0)
             ELSE IF Len(cx.lines) = 1 /\ ~_is_key_value_line(first)
             THEN IF prim.ok THEN Done(prim.v, cur) ELSE Raised(prim, cur)
             ELSE _decode_object(cx, cur, 0))))

----------------------------------------------------------------------------
(* decode/expand.py.  The dicts are updated in place in the source; here   *)
(* each operator returns Ok of the updated entries, or the TypeError.      *)

\* dict.get(key): the value, or None when the key is absent
ObjGet(o, key) == IF HasKey(o, key) THEN o[CHOOSE i \in 1..Len(o) : o[i].k = key].v ELSE None

\* dict.pop(key, None): the entries without the key
ObjPop(o, key) == SelectSeq(o, LAMBDA entry : entry.k # key)

RECURSIVE merge_objects_or_resolve(_, _, _, _)
RECURSIVE merge_objects(_, _, _)
RECURSIVE MergeLoop(_, _, _, _)

merge_objects_or_resolve(target, key, value, strict) ==
    Bind(ObjGet(target, key), LAMBDA existing :
    Bind(merge_objects(existing.o, value.o, strict), LAMBDA merged :
        IF is_json_object(existing) /\ is_json_object(value)
        THEN IF merged.ok THEN Ok(ObjSet(target, key, VObj(merged.v))) ELSE merged
        ELSE IF strict THEN Err("TypeError", "PathConflict")
        ELSE Ok(ObjSet(target, key, value))))

MergeLoop(target, source, i, strict) ==
    IF i > Len(source) THEN Ok(target)
    ELSE Bind(IF HasKey(target, source[i].k)
              THEN merge_objects_or_resolve(target, source[i].k, source[i].v, strict)
              ELSE Ok(ObjSet(target, source[i].k, source[i].v)),
              LAMBDA step :
             IF step.ok THEN MergeLoop(step.v, source, i + 1, strict) ELSE step)

merge_objects(target, source, strict) == MergeLoop(target, source, 1, strict)

\* `existing is None` holds for an absent key and for a key that maps to null
IsPyNone(existing) == existing = None \/ existing.t = "null"

RECURSIVE insert_path_safe(_, _, _, _)
insert_path_safe(target, segments, value, strict) ==
    IF Len(segments) = 1
    THEN IF HasKey(target, segments[1])
         THEN merge_objects_or_resolve(target, segments[1], value, strict)
         ELSE Ok(ObjSet(target, segments[1], value))
    ELSE Bind(segments[1], LAMBDA segment :
         Bind(ObjGet(target, segment), LAMBDA existing :
         Bind(IF ~IsPyNone(existing) /\ is_json_object(existing) THEN existing.o ELSE <<>>,
              LAMBDA below :
         Bind(insert_path_safe(below, Tail(segments), value, strict), LAMBDA inner :
             IF ~IsPyNone(existing) /\ ~is_json_object(existing) /\ strict
             THEN Err("TypeError", "PathConflict")
             ELSE IF inner.ok THEN Ok(ObjSet(target, segment, VObj(inner.v))) ELSE inner))))

RECURSIVE expand_paths_safe(_, _)
RECURSIVE ExpandLoop(_, _, _, _, _)

ExpandLoop(entries, i, quoted_keys, expanded, strict) ==
    IF i > Len(entries) THEN Ok(VObj(expanded))
    ELSE Bind(entries[i].k, LAMBDA key :
         Bind(quoted_keys # None /\ key \in quoted_keys.q, LAMBDA is_quoted :
         Bind(Split(key, DOT), LAMBDA segments :
         Bind(expand_paths_safe(entries[i].v, strict), LAMBDA child :
         Bind(IF Contains(key, DOT) /\ ~is_quoted
                    /\ \A j \in 1..Len(segments) : is_identifier_segment(segments[j])
              THEN insert_path_safe(expanded, segments, child.v, strict)
              ELSE IF HasKey(expanded, key)
              THEN merge_objects_or_resolve(expanded, key, child.v, strict)
              ELSE Ok(ObjSet(expanded, key, child.v)),
              LAMBDA step :
             IF ~child.ok THEN child
             ELSE IF ~step.ok THEN step
             ELSE ExpandLoop(entries, i + 1, quoted_keys, step.v, strict))))))

expand_paths_safe(value, strict) ==
    IF value.t = "arr"
    THEN Bind(AllOk([i \in 1..Len(value.a) |-> expand_paths_safe(value.a[i], strict)], <<>>),
              LAMBDA items :
             IF items.ok THEN Ok(VArr(items.v)) ELSE items)
    ELSE IF ~is_json_object(value) THEN Ok(value)
    ELSE ExpandLoop(ObjPop(value.o, QUOTED_KEY_MARKER), 1,
                    ObjGet(value.o, QUOTED_KEY_MARKER), <<>>, strict)

----------------------------------------------------------------------------
(* decode/__init__.py *)

\* _strip_metadata that removes the marker from the value itself and not
\* from the objects inside it
_strip_metadata_shallow(value) ==
    IF value.t = "obj" THEN VObj(ObjPop(value.o, QUOTED_KEY_MARKER)) ELSE value

RECURSIVE _strip_metadata(_)
_strip_metadata(value) ==
    IF value.t = "arr" THEN VArr([i \in 1..Len(value.a) |-> _strip_metadata(value.a[i])])
    ELSE IF value.t = "obj"
    THEN Bind(ObjPop(value.o, QUOTED_KEY_MARKER), LAMBDA kept :
             VObj([i \in 1..Len(kept) |-> [k |-> kept[i].k, v |-> _strip_metadata(kept[i].v)]]))
    ELSE value

\* resolve_decode_options gives each absent option its default
DefaultDecodeOptions == [indent |-> 2, strict |-> TRUE, expand_paths |-> "off"]

\* Ok(value) or the error; DecodeRun also gives the cursor the decoder ended with
DecodeRun(source, opts) ==
    Bind(to_parsed_lines(source, opts.indent, opts.strict), LAMBDA scanned :
    Bind([lines |-> scanned.v.lines, blanks |-> scanned.v.blanks, opts |-> opts], LAMBDA cx :
    Bind(decode_value_from_lines(cx, NewCursor), LAMBDA decoded :
    Bind(IF opts.expand_paths = "safe" THEN expand_paths_safe(decoded.v, opts.strict)
         ELSE Ok(decoded.v),
         LAMBDA expanded :
        IF ~scanned.ok THEN scanned
        ELSE IF ~decoded.ok THEN Err(decoded.exc, decoded.err)
        ELSE IF ~expanded.ok THEN expanded
        ELSE [ok |-> TRUE, v |-> _strip_metadata(expanded.v), cur |-> decoded.cur,
              nlines |-> Len(scanned.v.lines)]))))

decode(source, opts) ==
    Bind(DecodeRun(source, opts), LAMBDA r : IF r.ok THEN Ok(r.v) ELSE r)

\* decode up to the return of decode_value_from_lines: whether it returned,
\* the cursor it left (a new one when the scanner failed and no decoder
\* ran), and the parsed lines
DecodeTrace(source, opts) ==
    Bind(to_parsed_lines(source, opts.indent, opts.strict), LAMBDA scanned :
    Bind([lines |-> scanned.v.lines, blanks |-> scanned.v.blanks, opts |-> opts], LAMBDA cx :
    Bind(decode_value_from_lines(cx, NewCursor), LAMBDA decoded :
        IF ~scanned.ok THEN [ok |-> FALSE, cur |-> NewCursor, lines |-> <<>>]
        ELSE [ok |-> decoded.ok, cur |-> decoded.cur, lines |-> scanned.v.lines])))

----------------------------------------------------------------------------
(* Inputs of the bounded checks *)

\* strings of length 0..n over alphabet
RECURSIVE StringsUpTo(_, _)
StringsUpTo(alphabet, n) ==
    IF n = 0 THEN {<<>>}
    ELSE LET shorter == StringsUpTo(alphabet, n - 1)
         IN  shorter \cup {Append(w, c) : w \in shorter, c \in alphabet}

MaxStrLen == 2

PrimAlphabet ==
    {"a", "e", "0", "1", "-", "+", ".", "_", " ", ":", ",", "|", "\t", "\n", "\"", "\\", "[", "}"}

\* longer strings of the shapes the quoting rules name
PrimSamples ==
    {TRUE_LITERAL, FALSE_LITERAL, NULL_LITERAL,
     <<"1", "e", "5">>, <<"-", "1", ".", "5">>, <<"1", ".", "5", "e", "-", "3">>,
     <<"1", "E", "+", "5">>, <<"0", "0", "7">>, <<"a", " ", "b">>, <<"h", "e", "l", "l", "o">>,
     <<"a", "]", "b">>, <<"a", "{", "b">>, <<"a", "\r", "b">>, <<"1", ".", "e", "5">>,
     <<"t", "r", "u", "e", "x">>, <<"-", "a", "b">>, <<"+", ".", "5">>, <<"1", "_", "0">>}

PrimStrings == StringsUpTo(PrimAlphabet, MaxStrLen) \cup PrimSamples

----------------------------------------------------------------------------
(* SpecPrim: a string value is encoded as a primitive under a delimiter,   *)
(* and the decoder parses the token back.                                  *)

InitPrim ==
    /\ pc = "start"
    /\ input \in {VStr(s) : s \in PrimStrings}
    /\ options \in {[delimiter |-> d] : d \in DELIMITERS}
    /\ text = <<>>
    /\ result = None
    /\ text2 = <<>>
    /\ stack = <<>>
    /\ writer = <<>>

EncodePrimitive ==
    /\ pc = "start"
    /\ text' = encode_primitive(input, options.delimiter)
    /\ pc' = "encoded"
    /\ UNCHANGED <<input, options, result, text2, stack, writer>>

ParsePrimitiveToken ==
    /\ pc = "encoded"
    /\ result' = parse_primitive_token(text)
    /\ pc' = "parsed"
    /\ UNCHANGED <<input, options, text, text2, stack, writer>>

NextPrim == EncodePrimitive \/ ParsePrimitiveToken

SpecPrim == InitPrim /\ [][NextPrim]_vars

\* A numeric literal: an optional minus sign, digits, an optional fraction
\* (a dot and digits) and an optional exponent (e or E, an optional sign, digits).
AllDigits(s) == Len(s) > 0 /\ \A i \in 1..Len(s) : s[i] \in Digits

IsFraction(s) == s = <<>> \/ (s[1] = "." /\ AllDigits(Tail(s)))

IsExponent(s) ==
    \/ s = <<>>
    \/ /\ s[1] \in {"e", "E"}
       /\ \/ AllDigits(Tail(s))
          \/ (Len(s) > 1 /\ s[2] \in {"+", "-"} /\ AllDigits(Tail(Tail(s))))

NumericText(s) ==
    LET body == IF StartsWithChar(s, "-") THEN Tail(s) ELSE s
    IN  \E a \in 1..Len(body) : \E b \in a..Len(body) :
            /\ AllDigits(SubSeq(body, 1, a))
            /\ IsFraction(SubSeq(body, a + 1, b))
            /\ IsExponent(SubSeq(body, b + 1, Len(body)))

\* The cases in which a string value must be written in quotes
MustQuote(s, d) ==
    \/ s = <<>>
    \/ IsSpace(s[1]) \/ IsSpace(s[Len(s)])
    \/ s \in {TRUE_LITERAL, FALSE_LITERAL, NULL_LITERAL}
    \/ NumericText(s)
    \/ \E i \in 1..Len(s) : s[i] \in {":", "\"", "\\", "[", "]", "{", "}", "\n", "\r", "\t", d}
    \/ s[1] = "-"

\* t is s wrapped in double quotes, with escapes that read back as s
WrappedInQuotes(t, s) ==
    /\ Len(t) >= 2
    /\ t[1] = "\"" /\ t[Len(t)] = "\""
    /\ unescape_string(SubSeq(t, 2, Len(t) - 1)) = Ok(s)

\* C7: encode_primitive(s, d) is s in double quotes (with escaping) when s is
\* empty, has leading or trailing whitespace, is true, false or null, is a
\* numeric literal, contains a colon, quote, backslash, bracket, brace,
\* newline, carriage return or tab, contains d or starts with "-"; otherwise
\* it is s unchanged.
C7_QuotingRule ==
    pc # "start" =>
        IF MustQuote(input.s, options.delimiter)
        THEN WrappedInQuotes(text, input.s)
        ELSE text = input.s

\* C7 witness: a string that holds the active (pipe) delimiter has been quoted
C7_Witness ==
    /\ pc = "encoded"
    /\ options.delimiter = PIPE
    /\ input.s = <<"a", "|">>
    /\ text = <<"\"", "a", "|", "\"">>

\* C8: parse_primitive_token(encode_primitive(s, d)) is the string s itself
C8_StringReadsBackAsString ==
    pc = "parsed" => result = Ok(VStr(input.s))

----------------------------------------------------------------------------
(* SpecHeader: an array header is formatted by the encoder and parsed back *)
(* by the decoder.                                                         *)

MaxHeaderLength == 2

MaxHeaderFields == 2

HeaderKeys ==
    {<<>>, <<"a">>, <<"a", " ", "b">>, <<"x", ",", "y">>, <<"k", ":">>, <<"a", "[">>,
     <<"a", "]">>, <<"}">>, <<"a", "|", "b">>, <<"q", "\"">>, <<"x", ".", "y">>}

HeaderFieldNames ==
    {<<"a">>, <<"b">>, <<"x", ",", "y">>, <<"a", ":", "b">>, <<"a", "]">>, <<"}">>,
     <<"a", "|", "b">>}

\* sequences of 1..n names
RECURSIVE FieldLists(_, _)
FieldLists(names, n) ==
    IF n = 0 THEN {}
    ELSE LET shorter == FieldLists(names, n - 1)
         IN  {<<f>> : f \in names} \cup shorter
             \cup {Append(fs, f) : fs \in shorter, f \in names}

HeaderInputs ==
    [length : 0..MaxHeaderLength,
     key : {None} \cup {Some(k) : k \in HeaderKeys},
     fields : {None} \cup {Some(fs) : fs \in FieldLists(HeaderFieldNames, MaxHeaderFields)},
     delimiter : DELIMITERS]

InitHeader ==
    /\ pc = "start"
    /\ input \in HeaderInputs
    /\ options = [delimiter |-> DEFAULT_DELIMITER]
    /\ text = <<>>
    /\ result = None
    /\ text2 = <<>>
    /\ stack = <<>>
    /\ writer = <<>>

FormatHeader ==
    /\ pc = "start"
    /\ text' = format_header(input.length, input.key, input.fields, input.delimiter)
    /\ pc' = "formatted"
    /\ UNCHANGED <<input, options, result, text2, stack, writer>>

ParseHeader ==
    /\ pc = "formatted"
    /\ result' = parse_array_header_line(text, options.delimiter)
    /\ pc' = "parsed"
    /\ UNCHANGED <<input, options, text, text2, stack, writer>>

NextHeader == FormatHeader \/ ParseHeader

SpecHeader == InitHeader /\ [][NextHeader]_vars

\* C5: parsing the header line that format_header wrote returns the same
\* length, delimiter, key and fields, also for a key or a field name that
\* needs quotes.
C5_HeaderRoundTrip ==
    pc = "parsed" =>
        /\ result.ok
        /\ result.v # None
        /\ result.v.v.header = [key |-> input.key, length |-> input.length,
                                delimiter |-> input.delimiter, fields |-> input.fields]

----------------------------------------------------------------------------
(* Spec: a value is encoded, the text is decoded, and the decoded value is *)
(* encoded again with the same options.                                    *)

MaxArrayLen == 2

MaxObjectKeys == 2

\* sequences of 0..n elements of a set
RECURSIVE SeqsUpTo(_, _)
SeqsUpTo(elems, n) ==
    IF n = 0 THEN {<<>>}
    ELSE LET shorter == SeqsUpTo(elems, n - 1)
         IN  shorter \cup {Append(q, x) : q \in shorter, x \in elems}

\* entry lists of 0..n entries with distinct keys
RECURSIVE EntriesUpTo(_, _, _)
EntriesUpTo(keys, vals, n) ==
    IF n = 0 THEN {<<>>}
    ELSE LET shorter == EntriesUpTo(keys, vals, n - 1)
         IN  shorter \cup
             UNION {{Append(o, [k |-> k, v |-> v]) : k \in {x \in keys : ~HasKey(o, x)}, v \in vals} :
                       o \in shorter}

Scalars ==
    {VNull, VBool(TRUE), VBool(FALSE), VInt(1), VNum(-15, -1), VStr(<<"a">>), VStr(<<>>),
     VStr(<<"+", "1">>), VStr(<<"1", ".">>), VStr(<<"a", ",", "b">>),
     VStr(<<"x", "[", "1", "]", ":", " ", "y">>), VStr(<<"t", "r", "u", "e">>)}

LeafScalars == {VNull, VInt(1), VStr(<<"a">>), VStr(<<"+", "1">>)}

ValueKeys == {<<"a">>, <<"b">>, <<>>, <<"}">>}

\* arrays of scalars and objects of scalars
FlatArrays == {VArr(a) : a \in SeqsUpTo(LeafScalars, MaxArrayLen)}

FlatObjects == {VObj(o) : o \in EntriesUpTo(ValueKeys, LeafScalars, MaxObjectKeys)}

\* the values that the containers of the second layer hold
Elements ==
    {VInt(1), VStr(<<"a">>), VArr(<<>>), VArr(<<VInt(1)>>), VArr(<<VInt(1), VStr(<<"a">>)>>),
     VObj(<<>>), VObj(<<[k |-> <<"a">>, v |-> VInt(1)]>>),
     VObj(<<[k |-> <<"a">>, v |-> VInt(1)], [k |-> <<"b">>, v |-> VStr(<<"a">>)]>>)}

NestedArrays == {VArr(a) : a \in SeqsUpTo(Elements, MaxArrayLen)}

NestedObjects == {VObj(o) : o \in EntriesUpTo({<<"a">>, <<"b">>, <<>>}, Elements, MaxObjectKeys)}

Entry(k, v) == [k |-> k, v |-> v]

Obj1(k, v) == VObj(<<Entry(k, v)>>)

\* deeper values: chains of single-key objects, arrays in arrays in arrays,
\* objects in list items
DeepValues ==
    {Obj1(<<"a">>, Obj1(<<"b">>, Obj1(<<"c">>, VInt(1)))),
     Obj1(<<"a">>, Obj1(<<"b">>, Obj1(<<"c">>, VStr(<<"+", "1">>)))),
     Obj1(<<"a">>, Obj1(<<"b">>, VArr(<<VInt(1), VInt(1)>>))),
     Obj1(<<"a">>, Obj1(<<"b">>, VObj(<<>>))),
     Obj1(<<"a">>, Obj1(<<"b", " ">>, VInt(1))),
     VObj(<<Entry(<<"a">>, Obj1(<<"b">>, VInt(1))), Entry(<<"a", ".", "b">>, VInt(1))>>),
     VObj(<<Entry(<<"a">>, Obj1(<<"b">>, VInt(1))), Entry(<<"c">>, Obj1(<<"d">>, VStr(<<"a">>)))>>),
     Obj1(<<"a", ".", "b">>, VInt(1)),
     VArr(<<VArr(<<VArr(<<VInt(1)>>)>>)>>),
     VArr(<<VArr(<<VInt(1)>>), VArr(<<VArr(<<>>)>>)>>),
     VArr(<<Obj1(<<"a">>, VArr(<<Obj1(<<"b">>, VInt(1))>>))>>),
     VArr(<<VObj(<<Entry(<<"a">>, VObj(<<>>)), Entry(<<"b">>, VInt(1))>>)>>),
     VArr(<<VObj(<<Entry(<<"a">>, VArr(<<VObj(<<Entry(<<"b">>, VInt(1)), Entry(<<"c">>, VInt(1))>>)>>)),
                   Entry(<<"b">>, VInt(1))>>)>>),
     VArr(<<VObj(<<Entry(<<"a">>, VInt(1)), Entry(<<"b">>, VInt(1))>>),
            VObj(<<Entry(<<"b">>, VStr(<<"a">>)), Entry(<<"a">>, VNull)>>)>>),
     Obj1(<<"k">>, VArr(<<VObj(<<Entry(<<"a">>, VInt(1)), Entry(<<"b">>, VStr(<<"a">>))>>),
                          VObj(<<Entry(<<"a">>, VNull), Entry(<<"b">>, VBool(TRUE))>>)>>))}

\* arrays of objects that share one key set and hold primitives only
TableRows ==
    {VObj(o) : o \in EntriesUpTo({<<"a">>, <<"}">>}, {VInt(1), VStr(<<"+", "1">>)}, MaxObjectKeys)}
    \ {VObj(<<>>)}

TabularArrays ==
    {VArr(rows) : rows \in {q \in SeqsUpTo(TableRows, MaxArrayLen) :
                               Len(q) > 0 /\ is_tabular_array(q, Keys(q[1]))}}

\* chains of single-key objects that end in a scalar
ChainValues == {Obj1(<<"a">>, Obj1(<<"b">>, p)) : p \in Scalars}

\* Values of the first field of a list-item object: a primitive, an empty
\* object, an object, an empty array, an inline array, a tabular array and
\* a list array
FirstFieldValues ==
    {VInt(1), VObj(<<>>), Obj1(<<"x">>, VInt(1)), VArr(<<>>), VArr(<<VInt(1), VInt(2)>>),
     VArr(<<VObj(<<Entry(<<"x">>, VInt(1)), Entry(<<"y">>, VInt(2))>>),
            VObj(<<Entry(<<"x">>, VInt(3)), Entry(<<"y">>, VInt(4))>>)>>),
     VArr(<<VInt(1), Obj1(<<"x">>, VInt(1))>>)}

\* the fields after the first
OtherFields ==
    {<<>>, <<Entry(<<"b">>, VInt(2))>>, <<Entry(<<"b">>, Obj1(<<"c">>, VInt(3)))>>,
     <<Entry(<<"b">>, VArr(<<VInt(1), VInt(2)>>))>>}

ListItemObjects == {VObj(<<Entry(<<"a">>, f)>> \o r) : f \in FirstFieldValues, r \in OtherFields}

\* arrays of objects, at the root and as the value of a key
ListItemArrays ==
    UNION {{VArr(<<o>>), VArr(<<o, Obj1(<<"z">>, VNull)>>),
            Obj1(<<"k">>, VArr(<<o>>))} : o \in ListItemObjects}

\* Elements of a list array: a primitive, an object, arrays of primitives,
\* and arrays that hold an array or an object
MixedItems ==
    {VInt(1), Obj1(<<"a">>, VInt(1)), VArr(<<>>), VArr(<<VInt(1), VInt(2)>>),
     VArr(<<VArr(<<VInt(2)>>)>>), VArr(<<Obj1(<<"x">>, VInt(1))>>),
     VArr(<<VInt(1), VArr(<<VInt(2)>>)>>)}

MixedArrays == {VArr(q) : q \in SeqsUpTo(MixedItems, MaxArrayLen) \ {<<>>}}

Values ==
    Scalars \cup {VArr(<<x>>) : x \in Scalars} \cup {Obj1(<<"a">>, x) : x \in Scalars}
    \cup FlatArrays \cup FlatObjects \cup NestedArrays \cup NestedObjects \cup DeepValues
    \cup TabularArrays \cup {Obj1(<<"k">>, x) : x \in TabularArrays}
    \cup ListItemArrays \cup MixedArrays

\* values of every shape, encoded under every option setting
\* Objects whose own keys contain a dot, alone, nested, and beside a chain
\* of single-key objects with the same path or the same first segment
DottedKeyObjects ==
    {Obj1(<<"a", ".", "b">>, VInt(1)),
     Obj1(<<"x">>, Obj1(<<"a", ".", "b">>, VInt(1))),
     VObj(<<Entry(<<"a">>, Obj1(<<"b">>, VInt(1))), Entry(<<"a", ".", "b">>, VInt(2))>>),
     VObj(<<Entry(<<"a">>, Obj1(<<"b">>, VInt(1))), Entry(<<"a", ".", "c">>, VInt(2))>>),
     VObj(<<Entry(<<"a", ".", "b">>, VInt(1)), Entry(<<"a">>, Obj1(<<"c">>, VInt(2)))>>),
     VObj(<<Entry(<<"a">>, Obj1(<<"b">>, VInt(1))), Entry(<<"a", "b">>, VInt(2))>>),
     VObj(<<Entry(<<"a">>, Obj1(<<"b">>, VInt(1))), Entry(<<"c">>, VInt(2))>>)}

\* Objects for key folding: a chain that stops at an object of two keys which
\* holds a further chain, a chain of four keys, a chain through a key that is
\* not an identifier, chains that end in an array and in an empty object, and
\* a chain beside a sibling
FoldValues ==
    {Obj1(<<"a">>, Obj1(<<"b">>,
         VObj(<<Entry(<<"c">>, Obj1(<<"d">>, Obj1(<<"e">>, VInt(1)))), Entry(<<"f">>, VInt(2))>>))),
     Obj1(<<"a">>, Obj1(<<"b">>, Obj1(<<"c">>, Obj1(<<"d">>, VInt(1))))),
     Obj1(<<"a">>, Obj1(<<"1">>, Obj1(<<"b">>, VInt(1)))),
     Obj1(<<"a">>, Obj1(<<"b">>, Obj1(<<"c">>, VArr(<<VInt(1), VInt(2)>>)))),
     Obj1(<<"a">>, Obj1(<<"b">>, Obj1(<<"c">>, VObj(<<>>)))),
     VObj(<<Entry(<<"x">>, VInt(1)), Entry(<<"a">>, Obj1(<<"b">>, Obj1(<<"c">>, VInt(2))))>>)}

MaxFoldDepth == 4

FoldEncodeOptions ==
    [indent : {2}, delimiter : {DEFAULT_DELIMITER}, key_folding : {"off", "safe"},
     flatten_depth : {Unbounded} \cup {FlattenDepth(n) : n \in 0..MaxFoldDepth}]

OptionValues ==
    DeepValues \cup ChainValues \cup DottedKeyObjects
    \cup {VInt(1), VStr(<<"a", "|", "b">>), VArr(<<VInt(1), VStr(<<"a", ",", "b">>)>>)}

MaxFlattenDepth == 2

MaxIndent == 2

EncodeOptions ==
    [indent : 0..MaxIndent, delimiter : DELIMITERS, key_folding : {"off", "safe"},
     flatten_depth : {Unbounded} \cup {FlattenDepth(n) : n \in 0..MaxFlattenDepth}]

\* the decode options that go with encode options: the same indent
DecodeOptionsFor(enc) ==
    [indent : {enc.indent}, strict : BOOLEAN, expand_paths : {"off", "safe"}]

CodecOptions(encs) == UNION {{[enc |-> e, dec |-> d] : d \in DecodeOptionsFor(e)} : e \in encs}

Init ==
    /\ pc = "start"
    /\ \/ input \in Values /\ options \in CodecOptions({DefaultEncodeOptions})
       \/ input \in OptionValues /\ options \in CodecOptions(EncodeOptions)
       \/ input \in FoldValues /\ options \in CodecOptions(FoldEncodeOptions)
    /\ text = <<>>
    /\ result = None
    /\ text2 = <<>>
    /\ stack = <<>>
    /\ writer = <<>>

Encode ==
    /\ pc = "start"
    /\ text' = encode(input, options.enc)
    /\ pc' = "encoded"
    /\ UNCHANGED <<input, options, result, text2, stack, writer>>

Decode ==
    /\ pc = "encoded"
    /\ result' = decode(text, options.dec)
    /\ pc' = "decoded"
    /\ UNCHANGED <<input, options, text, text2, stack, writer>>

\* encode(decode(text)): runs when decode returned a value
ReEncode ==
    /\ pc = "decoded"
    /\ result.ok
    /\ text2' = encode(result.v, options.enc)
    /\ pc' = "reencoded"
    /\ UNCHANGED <<input, options, text, result, stack, writer>>

Next == Encode \/ Decode \/ ReEncode

Spec == Init /\ [][Next]_vars

\* Equality of values: arrays by position, objects by key whatever the order
RECURSIVE ValueEq(_, _)
ValueEq(x, y) ==
    IF x.t # y.t THEN FALSE
    ELSE IF x.t = "arr"
    THEN Len(x.a) = Len(y.a) /\ \A i \in 1..Len(x.a) : ValueEq(x.a[i], y.a[i])
    ELSE IF x.t = "obj"
    THEN /\ Len(x.o) = Len(y.o)
         /\ \A i \in 1..Len(x.o) : \E j \in 1..Len(y.o) :
                x.o[i].k = y.o[j].k /\ ValueEq(x.o[i].v, y.o[j].v)
    ELSE x = y

DefaultOptions == [enc |-> DefaultEncodeOptions, dec |-> DefaultDecodeOptions]

\* C1: with default options decode(encode(v)) = v for every value v
C1_RoundTrip ==
    (pc = "decoded" /\ options = DefaultOptions) => (result.ok /\ ValueEq(result.v, input))

\* the decoder is given the options that match the encoder's: the same
\* indent (a positive one), and path expansion exactly when keys were folded
SameOptions(opts) ==
    /\ opts.enc.indent > 0
    /\ opts.dec.indent = opts.enc.indent
    /\ (opts.dec.expand_paths = "safe") <=> (opts.enc.key_folding = "safe")

\* C6: with the same options on both sides, encode(decode(encode(v))) is
\* the text encode(v), byte for byte
C6_ReEncodeIdentical ==
    SameOptions(options) =>
        /\ pc = "decoded" => result.ok
        /\ pc = "reencoded" => text2 = text

\* An array of N >= 1 objects with one non-empty key set and primitive values
UniformRows(v) ==
    /\ v.t = "arr" /\ Len(v.a) >= 1
    /\ \A i \in 1..Len(v.a) :
          /\ v.a[i].t = "obj" /\ Len(v.a[i].o) >= 1
          /\ {v.a[i].o[j].k : j \in 1..Len(v.a[i].o)} = {v.a[1].o[j].k : j \in 1..Len(v.a[1].o)}
          /\ \A j \in 1..Len(v.a[i].o) : v.a[i].o[j].v.t \in {"null", "bool", "num", "str"}

\* The lines of the tabular form of rows under an optional key: the header
\* key[N]{f1,...,fk}: and one indented row per object
TabularLines(key, rows, opts) ==
    LET fields == [j \in 1..Len(rows[1].o) |-> rows[1].o[j].k]
        marker == IF opts.delimiter = COMMA THEN <<>> ELSE <<opts.delimiter>>
        header == (IF key = None THEN <<>> ELSE encode_key(key.v))
                  \o <<"[">> \o NatStr(Len(rows)) \o marker \o <<"]">>
                  \o <<"{">> \o Join(opts.delimiter, [j \in 1..Len(fields) |-> encode_key(fields[j])])
                  \o <<"}", ":">>
        cell(i, j) == LET at == CHOOSE x \in 1..Len(rows[i].o) : rows[i].o[x].k = fields[j]
                      IN  encode_primitive(rows[i].o[at].v, opts.delimiter)
        row(i) == Repeat(" ", opts.indent)
                  \o Join(opts.delimiter, [j \in 1..Len(fields) |-> cell(i, j)])
    IN  <<header>> \o [i \in 1..Len(rows) |-> row(i)]

\* the array of the claim and its key: the root value, or the one entry of the root object
TableOf(v) ==
    IF v.t = "arr" THEN [key |-> None, rows |-> v]
    ELSE IF v.t = "obj" /\ Len(v.o) = 1 THEN [key |-> Some(v.o[1].k), rows |-> v.o[1].v]
    ELSE [key |-> None, rows |-> VNull]

\* C3: an array of N >= 1 objects with one non-empty key set and primitive
\* values is written as the header key[N]{f1,...,fk}: (fields in the first
\* object's key order) and exactly N rows of the values in field order,
\* joined by the delimiter; strict decode of the text returns the same objects.
C3_TabularRoundTrip ==
    (UniformRows(TableOf(input).rows) /\ options.enc.indent > 0) =>
        /\ pc # "start" =>
               Split(text, NEWLINE) = TabularLines(TableOf(input).key, TableOf(input).rows.a, options.enc)
        /\ (pc = "decoded" /\ options.dec.strict /\ options.dec.expand_paths = "off") =>
               (result.ok /\ ValueEq(result.v, input))

RECURSIVE ChainKeys(_)
ChainKeys(v) ==
    IF v.t = "obj" /\ Len(v.o) = 1 THEN <<v.o[1].k>> \o ChainKeys(v.o[1].v) ELSE <<>>

RECURSIVE ChainLeaf(_)
ChainLeaf(v) == IF v.t = "obj" /\ Len(v.o) = 1 THEN ChainLeaf(v.o[1].v) ELSE v

IdentifierSegment(k) ==
    /\ Len(k) > 0
    /\ k[1] \in Letters \cup {"_"}
    /\ \A i \in 1..Len(k) : k[i] \in Letters \cup Digits \cup {"_"}

\* A chain k1 -> ... -> kn -> p of single-key objects over identifier segments
\* that ends in a primitive, under options that fold all of it
FoldedChain(v, enc) ==
    /\ Len(ChainKeys(v)) >= 1
    /\ ChainLeaf(v).t \in {"null", "bool", "num", "str"}
    /\ \A i \in 1..Len(ChainKeys(v)) : IdentifierSegment(ChainKeys(v)[i])
    /\ enc.key_folding = "safe"
    /\ enc.flatten_depth.inf \/ enc.flatten_depth.n >= Len(ChainKeys(v))

DottedKey(v) == Join(DOT, ChainKeys(v))

\* C4: with key_folding safe and enough flatten_depth, a chain of single-key
\* objects over identifier segments is encoded as the one line k1.k2...kn: p;
\* decoding it with expand_paths safe gives back the nested objects and with
\* expand_paths off gives the one key k1.k2...kn.
C4_FoldExpand ==
    FoldedChain(input, options.enc) =>
        /\ pc # "start" =>
               text = DottedKey(input) \o <<":", " ">>
                      \o encode_primitive(ChainLeaf(input), options.enc.delimiter)
        /\ (pc = "decoded" /\ options.dec.expand_paths = "safe") =>
               (result.ok /\ ValueEq(result.v, input))
        /\ (pc = "decoded" /\ options.dec.expand_paths = "off") =>
               result = Ok(Obj1(DottedKey(input), ChainLeaf(input)))

----------------------------------------------------------------------------
(* SpecDecode: a text is handed to decode.                                 *)

MaxTextLen == 3

MaxCount == 3

TextAlphabet == {" ", "\n", "\t", "a", ":", "-", "1", "["}

ArrayForms == {"inline", "list", "tabular"}

ItemNames == <<"a", "b", "c", "d", "e", "f">>

CountHeader(form, declared) ==
    <<"i", "t", "e", "m", "s", "[">> \o NatStr(declared) \o <<"]">>
    \o (IF form = "tabular" THEN <<"{", "x", "}">> ELSE <<>>) \o <<":">>

\* The text of an array under the key items whose header declares `declared`
\* items and that holds `present` items, written inline, as list items or as
\* tabular rows of one field x
CountText(form, declared, present) ==
    CountHeader(form, declared)
    \o (IF form = "inline"
        THEN (IF present = 0 THEN <<>>
              ELSE <<" ">> \o Join(",", [i \in 1..present |-> <<ItemNames[i]>>]))
        ELSE Flatten([i \in 1..present |->
                 <<"\n", " ", " ">> \o (IF form = "list" THEN <<"-", " ">> ELSE <<>>)
                 \o <<ItemNames[i]>>]))

\* the value that holds exactly the items present in CountText(form, _, present)
CountValue(form, present) ==
    Obj1(<<"i", "t", "e", "m", "s">>,
         VArr([i \in 1..present |->
                  IF form = "tabular" THEN Obj1(<<"x">>, VStr(<<ItemNames[i]>>))
                  ELSE VStr(<<ItemNames[i]>>)]))

CountTexts == {CountText(f, n, m) : f \in ArrayForms, n \in 0..MaxCount, m \in 0..MaxCount}

DecodeTexts == StringsUpTo(TextAlphabet, MaxTextLen) \cup CountTexts

DecodeOptions == [indent : {DefaultDecodeOptions.indent}, strict : BOOLEAN, expand_paths : {"off", "safe"}]

InitDecode ==
    /\ pc = "start"
    /\ input \in DecodeTexts
    /\ options \in DecodeOptions
    /\ text = input
    /\ result = None
    /\ text2 = <<>>
    /\ stack = <<>>
    /\ writer = <<>>

DecodeText ==
    /\ pc = "start"
    /\ result' = decode(text, options)
    /\ pc' = "decoded"
    /\ UNCHANGED <<input, options, text, text2, stack, writer>>

NextDecode == DecodeText

SpecDecode == InitDecode /\ [][NextDecode]_vars

\* C2: when a header declares N items and the text holds M # N items, strict
\* decode fails with a count-mismatch error and non-strict decode returns,
\* without error, an array of exactly the M items present.
C2_CountMismatch ==
    \A f \in ArrayForms : \A n \in 0..MaxCount : \A m \in 0..MaxCount :
        (pc = "decoded" /\ n # m /\ text = CountText(f, n, m)) =>
            IF options.strict
            THEN ~result.ok /\ result.exc = "RangeError"
            ELSE result = Ok(CountValue(f, m))

\* every character is whitespace: the text is empty or holds only blank lines
BlankOnly(t) == \A i \in 1..Len(t) : t[i] \in {" ", "\t", "\n", "\r", "\f"}

\* C10: decoding a text that is empty or holds only blank lines fails with the
\* empty-input error, strict or not; and every decode yields exactly one
\* value or exactly one error.
C10_EmptyInput ==
    pc = "decoded" =>
        /\ BlankOnly(text) => result = Err("ReferenceError", "EmptyInput")
        /\ \/ result.ok /\ DOMAIN result = {"ok", "v"}
                        /\ result.v.t \in {"null", "bool", "num", "str", "arr", "obj"}
           \/ ~result.ok /\ DOMAIN result = {"ok", "exc", "err"}

\* C10 witness: a text of blank lines was decoded in non-strict mode and the
\* empty-input error came back
C10_Witness ==
    /\ pc = "decoded"
    /\ text = <<" ", "\n", "\t">>
    /\ ~options.strict
    /\ result = Err("ReferenceError", "EmptyInput")

----------------------------------------------------------------------------
(* SpecEncodeSteps: encode, one call of encode/core.py at a time.  The     *)
(* stack holds the calls that are still to run, the next one first, and    *)
(* writer the lines of the LineWriter.  A step runs the call on top: it    *)
(* appends to writer what that call writes itself and puts the calls it    *)
(* makes in its place.  Every function of core.py writes its own lines     *)
(* before the calls it makes, so the lines come out in the order of the    *)
(* source.                                                                 *)

\* what a call does itself: the lines it writes and the calls it makes, or
\* the exception it raises
Emit(out, calls) == [error |-> None, out |-> out, calls |-> calls]

Raise(exc) == [error |-> Some(exc), out |-> <<>>, calls |-> <<>>]

\* write_tabular_rows: row[key] raises KeyError for a key the row lacks
StepTabularRows(first_line, rows, header, depth, opts) ==
    IF \E r \in 1..Len(rows) : \E h \in 1..Len(header) : ~HasKey(rows[r].o, header[h])
    THEN Raise("KeyError")
    ELSE Emit(first_line \o write_tabular_rows(rows, header, depth, opts), <<>>)

StepObject(f, opts) ==
    LET keys == Keys(f.value)
        rlk == IF f.depth = 0 /\ f.root_literal_keys = None
               THEN Some({keys[i] : i \in {j \in 1..Len(keys) : Contains(keys[j], DOT)}})
               ELSE f.root_literal_keys
        effective_flatten_depth ==
            IF f.flatten_depth # None THEN f.flatten_depth.v ELSE opts.flatten_depth
    IN  Emit(<<>>, [i \in 1..Len(f.value.o) |->
                       CallPair(f.value.o[i].k, f.value.o[i].v, f.depth, Some(keys), rlk,
                                f.path_prefix, Some(effective_flatten_depth))])

StepPlainPair(key, value, depth, opts, root_literal_keys, current_path, effective_flatten_depth) ==
    IF is_json_primitive(value)
    THEN Emit(push(opts.indent, depth,
                   encode_key(key) \o <<":", " ">> \o encode_primitive(value, opts.delimiter)), <<>>)
    ELSE IF is_json_array(value) THEN Emit(<<>>, <<CallArray(Some(key), value, depth)>>)
    ELSE Emit(push(opts.indent, depth, encode_key(key) \o <<":">>),
              IF ~is_empty_object(value)
              THEN <<CallObject(value, depth + 1, root_literal_keys, Some(current_path),
                                Some(effective_flatten_depth))>>
              ELSE <<>>)

StepPair(f, opts) ==
    LET key == f.key.v
        current_path == PrefixDot(f.path_prefix) \o key
        effective_flatten_depth ==
            IF f.flatten_depth # None THEN f.flatten_depth.v ELSE opts.flatten_depth
        fold_result ==
            IF opts.key_folding = "safe" /\ f.siblings # None /\ Len(f.siblings.v) > 0
            THEN try_fold_key_chain(key, f.value, f.siblings.v, opts, f.root_literal_keys,
                                    f.path_prefix, Some(effective_flatten_depth))
            ELSE None
    IN  IF fold_result # None
        THEN LET folded_key == fold_result.v.folded_key
                 encoded_folded_key == encode_key(folded_key)
                 leaf_value == fold_result.v.leaf_value
             IN  IF fold_result.v.remainder = None
                 THEN IF is_json_primitive(leaf_value)
                      THEN Emit(push(opts.indent, f.depth,
                                     encoded_folded_key \o <<":", " ">>
                                     \o encode_primitive(leaf_value, opts.delimiter)), <<>>)
                      ELSE IF is_json_array(leaf_value)
                      THEN Emit(<<>>, <<CallArray(Some(folded_key), leaf_value, f.depth)>>)
                      ELSE Emit(push(opts.indent, f.depth, encoded_folded_key \o <<":">>), <<>>)
                 ELSE Emit(push(opts.indent, f.depth, encoded_folded_key \o <<":">>),
                           <<CallObject(fold_result.v.remainder, f.depth + 1, f.root_literal_keys,
                                        Some(IF f.path_prefix # None /\ Len(f.path_prefix.v) > 0
                                             THEN PrefixDot(f.path_prefix) \o folded_key
                                             ELSE folded_key),
                                        Some(DepthMinus(effective_flatten_depth,
                                                        fold_result.v.segment_count)))>>)
        ELSE StepPlainPair(key, f.value, f.depth, opts, f.root_literal_keys, current_path,
                           effective_flatten_depth)

\* encode_mixed_array_as_list_items
StepMixedArray(prefix, items, depth, opts) ==
    Emit(push(opts.indent, depth, format_header(Len(items), prefix, None, opts.delimiter)),
         [i \in 1..Len(items) |-> CallListItemValue(items[i], depth + 1)])

StepArray(f, opts) ==
    LET value == f.value
    IN  IF Len(value.a) = 0
        THEN Emit(push(opts.indent, f.depth, format_header(0, f.key, None, opts.delimiter)), <<>>)
        ELSE IF is_array_of_primitives(value)
        THEN Emit(push(opts.indent, f.depth,
                       encode_inline_array_line(value.a, opts.delimiter, f.key)), <<>>)
        ELSE IF is_array_of_arrays(value)
                /\ \A i \in 1..Len(value.a) : is_array_of_primitives(value.a[i])
        THEN Emit(encode_array_of_arrays_as_list_items(f.key, value.a, f.depth, opts), <<>>)
        ELSE IF is_array_of_objects(value)
        THEN IF extract_tabular_header(value.a) # None
             THEN StepTabularRows(
                      push(opts.indent, f.depth,
                           format_header(Len(value.a), f.key, extract_tabular_header(value.a),
                                         opts.delimiter)),
                      value.a, extract_tabular_header(value.a).v, f.depth + 1, opts)
             ELSE StepMixedArray(f.key, value.a, f.depth, opts)
        ELSE StepMixedArray(f.key, value.a, f.depth, opts)

StepListItemValue(f, opts) ==
    IF is_json_primitive(f.value)
    THEN Emit(push_list_item(opts.indent, f.depth, encode_primitive(f.value, opts.delimiter)), <<>>)
    ELSE IF is_json_array(f.value) /\ is_array_of_primitives(f.value)
    THEN Emit(push_list_item(opts.indent, f.depth,
                             encode_inline_array_line(f.value.a, opts.delimiter, None)), <<>>)
    ELSE IF is_json_object(f.value) THEN Emit(<<>>, <<CallObjectAsListItem(f.value, f.depth)>>)
    ELSE Emit(<<>>, <<>>)

\* the "- " line of a list-item object and what its first value needs
StepFirstField(first_key, first_value, depth, opts) ==
    LET encoded_key == encode_key(first_key)
        bare_header == encoded_key \o <<"[">> \o IntStr(Len(first_value.a)) \o <<"]", ":">>
    IN  IF is_json_primitive(first_value)
        THEN Emit(push_list_item(opts.indent, depth,
                      encoded_key \o <<":", " ">> \o encode_primitive(first_value, opts.delimiter)),
                  <<>>)
        ELSE IF is_json_array(first_value)
        THEN IF is_array_of_primitives(first_value)
             THEN Emit(push_list_item(opts.indent, depth,
                           encode_inline_array_line(first_value.a, opts.delimiter, Some(first_key))),
                       <<>>)
             ELSE IF is_array_of_objects(first_value)
             THEN IF extract_tabular_header(first_value.a) # None
                  THEN StepTabularRows(
                           push_list_item(opts.indent, depth,
                               format_header(Len(first_value.a), Some(first_key),
                                             extract_tabular_header(first_value.a), opts.delimiter)),
                           first_value.a, extract_tabular_header(first_value.a).v, depth + 1, opts)
                  ELSE Emit(push_list_item(opts.indent, depth, bare_header),
                            [i \in 1..Len(first_value.a) |->
                                CallObjectAsListItem(first_value.a[i], depth + 1)])
             ELSE Emit(push_list_item(opts.indent, depth, bare_header),
                       [i \in 1..Len(first_value.a) |->
                           CallListItemValue(first_value.a[i], depth + 1)])
        ELSE Emit(push_list_item(opts.indent, depth, encoded_key \o <<":">>),
                  IF ~is_empty_object(first_value)
                  THEN <<CallObject(first_value, depth + 2, None, None, None)>>
                  ELSE <<>>)

StepObjectAsListItem(f, opts) ==
    LET obj == f.value
        first == StepFirstField(obj.o[1].k, obj.o[1].v, f.depth, opts)
    IN  IF is_empty_object(obj) THEN Emit(push(opts.indent, f.depth, <<LIST_ITEM_MARKER>>), <<>>)
        ELSE IF first.error # None THEN first
        ELSE Emit(first.out,
                  first.calls \o [i \in 1..(Len(obj.o) - 1) |->
                      CallPair(obj.o[i + 1].k, obj.o[i + 1].v, f.depth + 1, None, None, None, None)])

\* rows of objects that lack each other's keys, and short lists of them
StepElements ==
    {VArr(<<VInt(1)>>), VObj(<<>>), Obj1(<<"a">>, VInt(1)), Obj1(<<"b">>, VInt(1)),
     Obj1(<<"a">>, VArr(<<Obj1(<<"a">>, VInt(1)), Obj1(<<"b">>, VInt(1))>>))}

StepValues ==
    Scalars \cup DeepValues \cup Elements \cup {VArr(a) : a \in SeqsUpTo(StepElements, MaxArrayLen)}

InitEncodeSteps ==
    /\ pc = "start"
    /\ input \in StepValues
    /\ options \in EncodeOptions
    /\ text = <<>>
    /\ result = None
    /\ text2 = <<>>
    /\ stack = <<>>
    /\ writer = <<>>

\* encode_value: a primitive is encoded at once; an array or an object
\* starts a LineWriter and the first call
StartEncode ==
    /\ pc = "start"
    /\ IF is_json_primitive(input)
       THEN /\ text' = encode_primitive(input, options.delimiter)
            /\ pc' = "done"
            /\ UNCHANGED stack
       ELSE /\ stack' = IF is_json_array(input) THEN <<CallArray(None, input, 0)>>
                        ELSE <<CallObject(input, 0, None, None, None)>>
            /\ pc' = "encoding"
            /\ UNCHANGED text
    /\ UNCHANGED <<input, options, result, text2, writer>>

\* the call on top of the stack runs: step is what it does
RunCall(fn, step) ==
    /\ pc = "encoding"
    /\ stack # <<>>
    /\ Head(stack).fn = fn
    /\ IF step.error # None
       THEN /\ pc' = "error"
            /\ result' = Err(step.error.v, "Encode")
            /\ UNCHANGED <<stack, writer>>
       ELSE /\ writer' = writer \o step.out
            /\ stack' = step.calls \o Tail(stack)
            /\ UNCHANGED <<pc, result>>
    /\ UNCHANGED <<input, options, text, text2>>

EncodeObjectCall == RunCall("encode_object", StepObject(Head(stack), options))

EncodeKeyValuePairCall == RunCall("encode_key_value_pair", StepPair(Head(stack), options))

EncodeArrayCall == RunCall("encode_array", StepArray(Head(stack), options))

EncodeListItemValueCall ==
    RunCall("encode_list_item_value", StepListItemValue(Head(stack), options))

EncodeObjectAsListItemCall ==
    RunCall("encode_object_as_list_item", StepObjectAsListItem(Head(stack), options))

\* writer.to_string(), once the first call has returned
ReturnText ==
    /\ pc = "encoding"
    /\ stack = <<>>
    /\ text' = to_string(writer)
    /\ pc' = "done"
    /\ UNCHANGED <<input, options, result, text2, stack, writer>>

NextEncodeSteps ==
    \/ StartEncode
    \/ EncodeObjectCall
    \/ EncodeKeyValuePairCall
    \/ EncodeArrayCall
    \/ EncodeListItemValueCall
    \/ EncodeObjectAsListItemCall
    \/ ReturnText

SpecEncodeSteps == InitEncodeSteps /\ [][NextEncodeSteps]_vars

\* The size of a value: one for the value, and for each element or entry
\* its size and two more
RECURSIVE SumOver(_, _, _)
SumOver(F(_), seq, i) == IF i > Len(seq) THEN 0 ELSE F(seq[i]) + SumOver(F, seq, i + 1)

RECURSIVE ValueSize(_)
ValueSize(v) ==
    LET Part(x) == ValueSize(IF v.t = "obj" THEN x.v ELSE x) + 2
    IN  IF v.t = "arr" THEN 1 + SumOver(Part, v.a, 1)
        ELSE IF v.t = "obj" THEN 1 + SumOver(Part, v.o, 1)
        ELSE 1

\* the work a pending call stands for
CallWeight(f) ==
    ValueSize(f.value) + (IF f.fn \in {"encode_key_value_pair", "encode_list_item_value"} THEN 1 ELSE 0)

\* the work that is left: it falls with every step and is never negative
WorkLeft ==
    IF pc = "start" THEN ValueSize(input) + 2
    ELSE IF pc = "encoding" THEN 1 + SumOver(CallWeight, stack, 1)
    ELSE 0

\* the functions of core.py that a pending call names
EncoderCalls ==
    {"encode_object", "encode_key_value_pair", "encode_array", "encode_list_item_value",
     "encode_object_as_list_item"}

\* C9: encode terminates and returns a text, raising no error, for every
\* value and every option setting (delimiter comma, tab or pipe; indent >= 0;
\* key_folding off or safe; flatten_depth a non-negative integer or
\* unbounded): no call raises, a run that has not returned can take a step,
\* every step leaves less work than there was, and the run that returns gives
\* the text of encode.
C9_EncodeTerminates ==
    /\ [](pc # "error")
    /\ [](pc = "encoding" /\ stack # <<>> => Head(stack).fn \in EncoderCalls)
    /\ [](WorkLeft >= 0)
    /\ [][WorkLeft' < WorkLeft]_vars
    /\ [](pc = "done" => text = encode(input, options))

\* C9 witness: encode has returned the text of a list of objects that do not
\* share their keys, with key folding on and a tab delimiter
C9_Witness ==
    /\ pc = "done"
    /\ input = VArr(<<Obj1(<<"a">>, VInt(1)), Obj1(<<"b">>, VInt(1))>>)
    /\ options.key_folding = "safe"
    /\ options.delimiter = TAB
    /\ options.indent = 0
    /\ Len(text) > 0

----------------------------------------------------------------------------
(* SpecLines: a text made of whole lines is handed to decode; the result   *)
(* is kept together with the cursor the decoder ended with.                *)

\* the characters of a line at nesting depth d (two spaces per level)
Ind(d, content) == Repeat(" ", DefaultDecodeOptions.indent * d) \o content

\* key: 1
Pair(key, token) == key \o <<":", " ">> \o token

\* the key written between double quotes
QuotedKey(key) == <<"\"">> \o key \o <<"\"">>

\* keys of an object entry as they are written: bare, dotted, and quoted
\* with a dot inside
WrittenKeys ==
    {<<"a">>, <<"a", ".", "b">>, QuotedKey(<<"a", ".", "b">>), QuotedKey(<<"c", ".", "d">>)}

\* Objects whose keys are written quoted or bare at the root, in a nested
\* object, in the fields of a list item, below a list item's first field,
\* in a list inside a list, and as the field names of a table
QuotedKeyTexts ==
    UNION {
        {Pair(k1, <<"1">>),
         to_string(<<Pair(k1, <<"1">>), Pair(k2, <<"2">>)>>),
         to_string(<<k1 \o <<":">>, Ind(1, Pair(k2, <<"1">>))>>),
         to_string(<<<<"[", "1", "]", ":">>,
                     Ind(1, <<"-", " ">> \o Pair(k1, <<"1">>)),
                     Ind(2, Pair(k2, <<"2">>))>>),
         to_string(<<<<"k", "[", "1", "]", ":">>,
                     Ind(1, <<"-", " ">> \o k1 \o <<":">>),
                     Ind(3, Pair(k2, <<"1">>))>>),
         to_string(<<<<"k", "[", "1", "]", ":">>,
                     Ind(1, <<"-", " ", "[", "1", "]", ":">>),
                     Ind(2, <<"-", " ">> \o Pair(k1, <<"1">>)),
                     Ind(3, Pair(k2, <<"2">>))>>),
         to_string(<<<<"[", "1", "]", "{">> \o k1 \o <<",">> \o k2 \o <<"}", ":">>,
                     Ind(1, <<"1", ",", "2">>)>>)}
        : k1 \in WrittenKeys, k2 \in WrittenKeys}

\* the string written between double quotes
QuotedText(written) == <<DOUBLE_QUOTE>> \o written \o <<DOUBLE_QUOTE>>

\* Quoted string values as they are written, with the string they denote:
\* brackets around digits, braces, colons, delimiters and an escape
QuotedValues ==
    {[written |-> <<"x", "[", "1", "]", ":", " ", "y">>, value |-> <<"x", "[", "1", "]", ":", " ", "y">>],
     [written |-> <<"[", "2", "]", "{", "b", "}", ":", " ", "c">>,
      value |-> <<"[", "2", "]", "{", "b", "}", ":", " ", "c">>],
     [written |-> <<"[", "1", "]", ":">>, value |-> <<"[", "1", "]", ":">>],
     [written |-> <<"[", "1", "|", "]", ":", " ", "q">>, value |-> <<"[", "1", "|", "]", ":", " ", "q">>],
     [written |-> <<"x", "[", "1", "]">>, value |-> <<"x", "[", "1", "]">>],
     [written |-> <<"{", "b", "}", ":", " ", "1">>, value |-> <<"{", "b", "}", ":", " ", "1">>],
     [written |-> <<"b", ":", " ", "c">>, value |-> <<"b", ":", " ", "c">>],
     [written |-> <<"b", ",", "c", "|", "d">>, value |-> <<"b", ",", "c", "|", "d">>],
     [written |-> <<"[", "x", "]", BACKSLASH, "n">>, value |-> <<"[", "x", "]", NEWLINE>>]}

BareKeys == {<<"a">>, <<"k", "1">>}

\* key: "string"
QuotedValueTexts == {Pair(k, QuotedText(q.written)) : k \in BareKeys, q \in QuotedValues}

MaxObjectLines == 3

MaxLineDepth == 2

\* Shapes of an object entry line: its nesting depth, and whether it is
\* key: 1  or opens a nested object with  key:
LineShapes == [depth : 0..MaxLineDepth, open : BOOLEAN]

\* the i-th line is an entry of key ki
EntryLine(i, shape) ==
    Ind(shape.depth, IF shape.open THEN <<"k">> \o NatStr(i) \o <<":">>
                     ELSE Pair(<<"k">> \o NatStr(i), <<"1">>))

\* Texts of one to MaxObjectLines entry lines at every combination of depths
ObjectTexts ==
    {to_string([i \in 1..Len(q) |-> EntryLine(i, q[i])]) :
        q \in SeqsUpTo(LineShapes, MaxObjectLines) \ {<<>>}}

MaxDeclared == 2

MaxItems == 3

\* Kinds of a list item: "item" is  - 1 , "bare" is the bare hyphen and
\* "obj" is an object of two fields on two lines; kinds of a row under the
\* header {a,b}: one, two and three values
ListItemKinds == {"item", "bare", "obj"}

RowKinds == {"w1", "w2", "w3"}

\* the lines of one body item, one level below the header
ItemLines(kind) ==
    CASE kind = "item" -> <<Ind(1, <<"-", " ", "1">>)>>
      [] kind = "bare" -> <<Ind(1, <<"-">>)>>
      [] kind = "obj" -> <<Ind(1, <<"-", " ", "a", ":", " ", "1">>), Ind(2, <<"b", ":", " ", "2">>)>>
      [] kind = "w1" -> <<Ind(1, <<"1">>)>>
      [] kind = "w2" -> <<Ind(1, <<"1", ",", "2">>)>>
      [] kind = "w3" -> <<Ind(1, <<"1", ",", "2", ",", "3">>)>>

RECURSIVE BodyLines(_)
BodyLines(items) ==
    IF Len(items) = 0 THEN <<>> ELSE ItemLines(Head(items)) \o BodyLines(Tail(items))

\* Shapes of an array text: the declared length, the body items present, and
\* a blank line of pad spaces before body line blank (0: no blank line;
\* one more than the number of body lines: after the last one)
ListShapes ==
    {sh \in [family : {"array"}, form : {"list"}, declared : 0..MaxDeclared,
             items : SeqsUpTo(ListItemKinds, MaxItems), blank : 0..(2 * MaxItems + 1),
             pad : {0, 3}] :
        /\ sh.blank <= Len(BodyLines(sh.items)) + 1
        /\ sh.blank = 0 => sh.pad = 0}

RowShapes ==
    {sh \in [family : {"array"}, form : {"rows"}, declared : 0..MaxDeclared,
             items : SeqsUpTo(RowKinds, MaxItems), blank : 0..(MaxItems + 1), pad : {0, 3}] :
        /\ sh.blank <= Len(sh.items) + 1
        /\ sh.blank = 0 => sh.pad = 0}

InlineShapes ==
    [family : {"array"}, form : {"inline"}, declared : 0..MaxDeclared,
     items : {Repeat("v", m) : m \in 1..MaxItems}, blank : {0}, pad : {0}]

ArrayShapes == ListShapes \cup RowShapes \cup InlineShapes

ArrayHeader(sh) ==
    <<"[">> \o NatStr(sh.declared) \o <<"]">>
    \o (IF sh.form = "rows" THEN <<"{", "a", ",", "b", "}">> ELSE <<>>) \o <<":">>

InsertBlank(lines, blank, pad) ==
    IF blank = 0 THEN lines
    ELSE SubSeq(lines, 1, blank - 1) \o <<Repeat(" ", pad)>> \o SubSeq(lines, blank, Len(lines))

ArrayText(sh) ==
    IF sh.form = "inline"
    THEN ArrayHeader(sh) \o <<" ">> \o Join(COMMA, [i \in 1..Len(sh.items) |-> <<"1">>])
    ELSE to_string(<<ArrayHeader(sh)>> \o InsertBlank(BodyLines(sh.items), sh.blank, sh.pad))

\* the shape without its blank line
NoBlank(sh) == [sh EXCEPT !.blank = 0, !.pad = 0]

\* Entries whose keys are dotted paths over a, b, c, with a value of each
\* kind: null, a number, an inline array, a nested object
PathSegments == {<<"a">>, <<"a", "b">>, <<"a", "b", "c">>}

PathValueKinds == {"null", "num", "arr", "obj"}

\* Two entries with different keys, the second written after the first
ConflictShapes ==
    {sh \in [family : {"paths"}, first : [segs : PathSegments, kind : PathValueKinds],
             second : [segs : PathSegments, kind : PathValueKinds]] :
        sh.first.segs # sh.second.segs}

\* the value of the n-th entry
PathValue(kind, n) ==
    CASE kind = "null" -> VNull
      [] kind = "num" -> VInt(n)
      [] kind = "arr" -> VArr(<<VInt(n), VInt(n)>>)
      [] kind = "obj" -> Obj1(<<"k">> \o NatStr(n), VInt(n))

\* the lines of the n-th entry
PathEntryLines(e, n) ==
    CASE e.kind = "null" -> <<Pair(Join(DOT, [i \in 1..Len(e.segs) |-> <<e.segs[i]>>]), <<"n", "u", "l", "l">>)>>
      [] e.kind = "num" -> <<Pair(Join(DOT, [i \in 1..Len(e.segs) |-> <<e.segs[i]>>]), NatStr(n))>>
      [] e.kind = "arr" ->
            <<Join(DOT, [i \in 1..Len(e.segs) |-> <<e.segs[i]>>]) \o <<"[", "2", "]", ":", " ">>
              \o NatStr(n) \o <<",">> \o NatStr(n)>>
      [] e.kind = "obj" ->
            <<Join(DOT, [i \in 1..Len(e.segs) |-> <<e.segs[i]>>]) \o <<":">>,
              Ind(1, Pair(<<"k">> \o NatStr(n), NatStr(n)))>>

ConflictText(sh) == to_string(PathEntryLines(sh.first, 1) \o PathEntryLines(sh.second, 2))

\* An entry with a quoted dotted key, of each kind (scalar, nested object,
\* inline array, list array, tabular array), at the root, in a nested
\* object, as the first field of a list item and as a later field of one
QuotedEntryShapes ==
    [family : {"quoted"}, key : {<<"a", ".", "b">>, <<"c", ".", "d">>},
     kind : {"scalar", "obj", "inline", "list", "rows"},
     place : {"root", "nested", "item", "field"}]

\* the lines of the entry, the first one at depth d
QuotedEntryLines(key, kind, d) ==
    CASE kind = "scalar" -> <<Ind(d, Pair(QuotedKey(key), <<"1">>))>>
      [] kind = "obj" -> <<Ind(d, QuotedKey(key) \o <<":">>), Ind(d + 1, Pair(<<"k">>, <<"1">>))>>
      [] kind = "inline" -> <<Ind(d, QuotedKey(key) \o <<"[", "2", "]", ":", " ", "1", ",", "2">>)>>
      [] kind = "list" ->
            <<Ind(d, QuotedKey(key) \o <<"[", "2", "]", ":">>),
              Ind(d + 1, <<"-", " ", "1">>), Ind(d + 1, <<"-", " ", "2">>)>>
      [] kind = "rows" ->
            <<Ind(d, QuotedKey(key) \o <<"[", "1", "]", "{", "x", "}", ":">>), Ind(d + 1, <<"1">>)>>

\* the entry's lines, written from depth d, with the hyphen of a list item
\* before the key
AfterHyphen(lines, d) ==
    <<Ind(1, <<"-", " ">> \o From(Head(lines), d * DefaultDecodeOptions.indent))>> \o Tail(lines)

\* the entry as the first field of a list item: the fields of a nested
\* object stand two levels below the hyphen, the items of an array one
FirstFieldLines(key, kind) ==
    IF kind = "obj" THEN AfterHyphen(QuotedEntryLines(key, kind, 2), 2)
    ELSE AfterHyphen(QuotedEntryLines(key, kind, 1), 1)

QuotedEntryText(sh) ==
    to_string(
        CASE sh.place = "root" -> QuotedEntryLines(sh.key, sh.kind, 0)
          [] sh.place = "nested" -> <<<<"x", ":">>>> \o QuotedEntryLines(sh.key, sh.kind, 1)
          [] sh.place = "item" ->
                <<<<"[", "1", "]", ":">>>> \o FirstFieldLines(sh.key, sh.kind)
          [] sh.place = "field" ->
                <<<<"[", "1", "]", ":">>, Ind(1, <<"-", " ", "z", ":", " ", "0">>)>>
                \o QuotedEntryLines(sh.key, sh.kind, 2))

\* First lines of a text: root array headers, lines that only look like
\* one, key-value lines, and lines that are neither
FirstLines ==
    {<<"[", "2", "]", ":", " ", "1", ",", "2">>,
     <<"[", "1", "]", ":", " ", "1">>,
     <<"[", "0", "]", ":">>,
     <<"[", "1", "|", "]", ":", " ", "1">>,
     <<"[", "1", "]", "x", ":", " ", "1">>,
     <<"[", "a", "]", ":", " ", "1">>,
     <<"[", "]", ":", " ", "1">>,
     <<"[", ":", " ", "1">>,
     <<"[", "1">>,
     <<"[", "1", "]">>,
     <<"a">>,
     <<"a", ":", " ", "1">>,
     <<"\"", "a", ":", "b", "\"">>,
     <<"\"", "a", "\"", ":", " ", "b">>,
     <<"\"", "a">>,
     <<"-", " ", "1">>,
     <<"1">>,
     <<"t", "r", "u", "e">>,
     <<"x", "[", "1", "]", ":", " ", "2">>,
     <<"\"", "[", "1", "]", "\"", ":", " ", "2">>,
     <<"[", "1", "]", ":", " ", "\"", "a", ":", "b", "\"">>,
     <<"\"", "a", "\"">>}

\* the line after the first, when there is one
SecondLines ==
    {<<"b", ":", " ", "2">>, <<"b">>, <<"[", "1", "]", ":", " ", "1">>}

DispatchShapes ==
    [family : {"dispatch"}, first : FirstLines, rest : {<<>>} \cup {<<x>> : x \in SecondLines}]

DispatchText(sh) == to_string(<<sh.first>> \o sh.rest)

LineTexts == QuotedKeyTexts \cup QuotedValueTexts \cup ObjectTexts

InitLines ==
    /\ pc = "start"
    /\ \/ /\ input \in [family : {"text"}, text : LineTexts]
          /\ options \in DecodeOptions
          /\ text = input.text
       \/ /\ input \in ConflictShapes
          /\ options \in DecodeOptions
          /\ text = ConflictText(input)
       \/ /\ input \in QuotedEntryShapes
          /\ options \in DecodeOptions
          /\ text = QuotedEntryText(input)
       \/ /\ input \in DispatchShapes
          /\ options \in DecodeOptions
          /\ text = DispatchText(input)
       \/ /\ input \in ArrayShapes
          /\ options \in [indent : {DefaultDecodeOptions.indent}, strict : BOOLEAN,
                          expand_paths : {"off"}]
          /\ text = ArrayText(input)
    /\ result = None
    /\ text2 = <<>>
    /\ stack = <<>>
    /\ writer = <<>>

\* decode(text): result holds the value, or the error, and the cursor
DecodeLines ==
    /\ pc = "start"
    /\ result' = DecodeRun(text, options)
    /\ pc' = "decoded"
    /\ UNCHANGED <<input, options, text, text2, stack, writer>>

NextLines == DecodeLines

SpecLines == InitLines /\ [][NextLines]_vars

\* every object of the value, at every level, has string keys only: no
\* entry is the quoted-key marker
RECURSIVE NoMarker(_)
NoMarker(v) ==
    IF v.t = "arr" THEN \A i \in 1..Len(v.a) : NoMarker(v.a[i])
    ELSE IF v.t = "obj"
    THEN \A i \in 1..Len(v.o) : v.o[i].k # QUOTED_KEY_MARKER /\ NoMarker(v.o[i].v)
    ELSE v.t \in {"null", "bool", "num", "str"}

\* what the decoders built before decode stripped the metadata
DecodedLines(source, opts) ==
    Bind(to_parsed_lines(source, opts.indent, opts.strict), LAMBDA scanned :
        decode_value_from_lines([lines |-> scanned.v.lines, blanks |-> scanned.v.blanks,
                                 opts |-> opts], NewCursor))

\* C11: a value returned by decode holds no quoted-key marker at any level,
\* whatever the options
C11_NoMarkerReturned == (pc = "decoded" /\ result.ok) => NoMarker(result.v)

\* C11 witness: a list item below the root whose keys were quoted was decoded
\* without path expansion; the decoders had marked the object, and the value
\* returned holds the two keys only
C11_Witness ==
    /\ pc = "decoded"
    /\ options.expand_paths = "off"
    /\ text = to_string(<<<<"k", "[", "1", "]", ":">>,
                          Ind(1, <<"-", " ", "[", "1", "]", ":">>),
                          Ind(2, <<"-", " ">> \o Pair(QuotedKey(<<"a", ".", "b">>), <<"1">>)),
                          Ind(3, Pair(QuotedKey(<<"c", ".", "d">>), <<"2">>))>>)
    /\ ~NoMarker(DecodedLines(text, options).v)
    /\ result.ok
    /\ result.v = Obj1(<<"k">>, VArr(<<VArr(<<VObj(<<Entry(<<"a", ".", "b">>, VInt(1)),
                                                     Entry(<<"c", ".", "d">>, VInt(2))>>)>>)>>))

----------------------------------------------------------------------------
(* SpecNumbers: encode on Python numbers and lists of them: the value is   *)
(* normalized, then the normalized value is encoded.                       *)

MaxNumbers == 2

MaxExponent == 1

\* ints, finite floats of both signs (zeros and integral values among
\* them), nan and the infinities
PyNumbers ==
    {PyInt(0), PyInt(7), PyInt(-30)}
    \cup {PyFloat(sg, m, e) : sg \in {1, -1}, m \in {0, 1, 25}, e \in -1..MaxExponent}
    \cup {PyNaN, PyInf(1), PyInf(-1)}

NumberInputs == PyNumbers \cup {PyList(q) : q \in SeqsUpTo(PyNumbers, MaxNumbers)}

InitNumbers ==
    /\ pc = "start"
    /\ input \in NumberInputs
    /\ options \in [indent : {DefaultEncodeOptions.indent}, delimiter : DELIMITERS,
                    key_folding : {"off"}, flatten_depth : {Unbounded}]
    /\ text = <<>>
    /\ result = None
    /\ text2 = <<>>
    /\ stack = <<>>
    /\ writer = <<>>

\* normalized = normalize_value(value)
NormalizeValue ==
    /\ pc = "start"
    /\ result' = normalize_value(input)
    /\ pc' = "normalized"
    /\ UNCHANGED <<input, options, text, text2, stack, writer>>

\* return _encode_value(normalized, resolved)
EncodeNormalized ==
    /\ pc = "normalized"
    /\ text' = encode_value(result, options)
    /\ pc' = "encoded"
    /\ UNCHANGED <<input, options, result, text2, stack, writer>>

NextNumbers == NormalizeValue \/ EncodeNormalized

SpecNumbers == InitNumbers /\ [][NextNumbers]_vars

RECURSIVE Pow10(_)
Pow10(n) == IF n = 0 THEN 1 ELSE 10 * Pow10(n - 1)

NonFinite(x) == x.py = "float" /\ x.kind # "finite"

\* the number is an int, or a finite float whose value is a whole number
Integral(x) ==
    \/ x.py = "int"
    \/ x.py = "float" /\ x.kind = "finite" /\ (x.m = 0 \/ Normal(x.m, x.e).e >= 0)

\* the whole number x as an integer
IntegerOf(x) ==
    IF x.py = "int" THEN x.n
    ELSE x.sign * Normal(x.m, x.e).m * Pow10(Normal(x.m, x.e).e)

\* a text of digits with an optional minus sign that denotes n
IntegerDigits(t, n) ==
    /\ Len(t) > 0
    /\ \A i \in 1..Len(t) : t[i] \in Digits \/ (i = 1 /\ t[i] = "-" /\ n < 0)
    /\ DigitsVal(IF t[1] = "-" THEN Tail(t) ELSE t) = (IF n < 0 THEN 0 - n ELSE n)
    /\ (Len(t) > 1 => t[1] # "0")

\* what the claim says of the rendering t of the number x
NumberRendering(x, t) ==
    /\ NonFinite(x) => t = <<"n", "u", "l", "l">>
    /\ Integral(x) => IntegerDigits(t, IntegerOf(x))
    /\ (Integral(x) /\ IntegerOf(x) = 0) => t = <<"0">>

\* the header of an inline array of n values
InlineHeader(n, delimiter) ==
    <<"[">> \o NatStr(n) \o (IF delimiter = "," THEN <<>> ELSE <<delimiter>>) \o <<"]", ":">>

\* C12: an integral number renders as its integer digits, a zero of either
\* sign as 0, and nan and the infinities as null, at the top level and as an
\* element of an inline array
C12_NumberRendering ==
    pc = "encoded" =>
        IF input.py = "list"
        THEN LET n == Len(input.items)
                 header == InlineHeader(n, options.delimiter)
                 body == From(text, Len(header) + 1)
                 tokens == Split(body, options.delimiter)
             IN  /\ Slice(text, 0, Len(header)) = header
                 /\ n = 0 => text = header
                 /\ n > 0 => /\ At(text, Len(header)) = " "
                             /\ Len(tokens) = n
                             /\ \A i \in 1..n : NumberRendering(input.items[i], tokens[i])
        ELSE NumberRendering(input, text)

\* C12 witness: the list [-0.0, -inf] was encoded as an inline array
C12_Witness ==
    /\ pc = "encoded"
    /\ input = PyList(<<PyFloat(-1, 0, 0), PyInf(-1)>>)
    /\ options.delimiter = "|"
    /\ text = <<"[", "2", "|", "]", ":", " ", "0", "|", "n", "u", "l", "l">>

\* C13: an entry line  key: "string"  with a bare key decodes to the key
\* mapped to the unescaped string, whatever the string contains
C13_QuotedValueKept ==
    pc = "decoded" =>
        \A k \in BareKeys, q \in QuotedValues :
            text = Pair(k, QuotedText(q.written)) =>
                result.ok /\ result.v = Obj1(k, VStr(q.value))

\* a non-empty array of objects that has no tabular header is written as
\* list items
ListItemLayout(v) ==
    /\ v.t = "arr"
    /\ Len(v.a) > 0
    /\ is_array_of_objects(v)
    /\ extract_tabular_header(v.a) = None

\* C14: strict decode of an array of objects written in list-item layout
\* returns the same objects, with the same fields at the same level
C14_ListItemRoundTrip ==
    (/\ pc = "decoded"
     /\ options = [enc |-> DefaultEncodeOptions, dec |-> DefaultDecodeOptions]
     /\ \/ ListItemLayout(input)
        \/ input.t = "obj" /\ Len(input.o) = 1 /\ ListItemLayout(input.o[1].v))
    => (result.ok /\ ValueEq(result.v, input))

\* a non-empty array that is neither inline nor tabular: a header line
\* followed by list items
ListLayout(v) ==
    /\ v.t = "arr"
    /\ Len(v.a) > 0
    /\ ~is_array_of_primitives(v)
    /\ ~(is_array_of_objects(v) /\ extract_tabular_header(v.a) # None)

\* the lines that are list items one level below the root
ListItemLines(lines, indent) ==
    {i \in 1..Len(lines) :
        /\ Slice(lines[i], 0, indent) = Repeat(" ", indent)
        /\ At(lines[i], indent) = "-"}

\* C15: a root array written in list-item layout has a header that declares
\* its length N and is followed by exactly N list items one level deeper
C15_DeclaredLengthIsItemCount ==
    (pc # "start" /\ ListLayout(input) /\ options.enc.indent > 0) =>
        /\ Split(text, NEWLINE)[1] = InlineHeader(Len(input.a), options.enc.delimiter)
        /\ Cardinality(ListItemLines(Split(text, NEWLINE), options.enc.indent)) = Len(input.a)

\* C16: after a successful decode of a root object made of entry lines the
\* cursor has consumed every content line of the input
C16_EveryLineConsumed ==
    (pc = "decoded" /\ text \in ObjectTexts /\ result.ok /\ result.v.t = "obj") =>
        result.cur.index = result.nlines

\* C17: with key_folding safe on encode and expand_paths safe on strict
\* decode, decode(encode(v)) = v for objects with dotted keys of their own,
\* alone and beside a chain of single-key objects
C17_FoldExpandRoundTrip ==
    (/\ pc = "decoded"
     /\ input \in DottedKeyObjects
     /\ options.enc.key_folding = "safe"
     /\ options.enc.indent > 0
     /\ options.dec.expand_paths = "safe"
     /\ options.dec.strict)
    => (result.ok /\ ValueEq(result.v, input))

\* C18: in non-strict mode decode returns a value for every array text whose
\* only faults are count mismatches, a blank line in the body, or items
\* after the body
C18_LenientNeverFails ==
    (pc = "decoded" /\ input.family = "array" /\ ~options.strict) => result.ok

\* the number of body lines of the items the decoder reads: the first
\* declared items, or all of them when fewer are present
ConsumedLines(sh) == Len(BodyLines(SubSeq(sh.items, 1, Min(sh.declared, Len(sh.items)))))

\* the blank line stands strictly between the first and the last body line
\* the array consumes
BlankInside(sh) == sh.blank > 1 /\ sh.blank <= ConsumedLines(sh)

\* the declared number of items is present and every row that is read has
\* one value for each field
CountsReached(sh) ==
    /\ Len(sh.items) >= sh.declared
    /\ sh.form = "rows" => \A i \in 1..sh.declared : sh.items[i] = "w2"

\* C19: in strict mode, when a list or tabular body has its declared N items
\* and the next line at item depth is one more list item, a bare hyphen, or
\* one more row, decode fails with the trailing-items error
C19_TrailingItemsRejected ==
    (/\ pc = "decoded"
     /\ input.family = "array"
     /\ input.form \in {"list", "rows"}
     /\ options.strict
     /\ CountsReached(input)
     /\ Len(input.items) > input.declared
     /\ ~BlankInside(input))
    => (~result.ok /\ result.exc = "RangeError" /\ result.err = "TrailingItems")

\* the number of items the decoder reads before it stops: the declared ones,
\* or all when fewer are present; a strict decode of rows stops at the first
\* row whose number of values is not the number of fields
ItemsRead(sh, strict) ==
    LET c == Min(sh.declared, Len(sh.items))
        bad == {i \in 1..c : sh.items[i] # "w2"}
    IN  IF sh.form = "rows" /\ strict /\ bad # {}
        THEN CHOOSE i \in bad : \A j \in bad : i <= j
        ELSE c

\* the blank line stands strictly between the first and the last body line
\* the decoder consumes
BlankBetweenConsumed(sh, strict) ==
    sh.blank > 1 /\ sh.blank <= Len(BodyLines(SubSeq(sh.items, 1, ItemsRead(sh, strict))))

SameOutcome(r1, r2) ==
    /\ r1.ok = r2.ok
    /\ r1.ok => r1.v = r2.v
    /\ ~r1.ok => (r1.exc = r2.exc /\ r1.err = r2.err)

\* a blank line outside the consumed body lines, and any blank line in
\* non-strict mode, leaves the outcome what it is without the blank line
BlankLineIgnored ==
    (~options.strict \/ ~BlankBetweenConsumed(input, options.strict)) =>
        SameOutcome(result, DecodeRun(ArrayText(NoBlank(input)), options))

RECURSIVE Nest(_, _)
Nest(segs, value) ==
    IF Len(segs) = 0 THEN value ELSE Obj1(<<Head(segs)>>, Nest(Tail(segs), value))

\* the value at the end of the path segs in v: None when a segment is
\* missing or is looked up in a value that is not an object
RECURSIVE Lookup(_, _)
Lookup(v, segs) ==
    IF Len(segs) = 0 THEN Some(v)
    ELSE IF v.t # "obj" THEN None
    ELSE IF \E i \in 1..Len(v.o) : v.o[i].k = <<Head(segs)>>
    THEN Lookup(v.o[CHOOSE i \in 1..Len(v.o) : v.o[i].k = <<Head(segs)>>].v, Tail(segs))
    ELSE None

\* Inserting value at path segs into tree meets a value that is not an
\* object at an intermediate segment, or a value at the terminal segment
\* that is not an object or is to be merged with one that is not
PathConflict(tree, segs, value) ==
    \/ \E i \in 1..(Len(segs) - 1) :
          Lookup(tree, SubSeq(segs, 1, i)) # None /\ Lookup(tree, SubSeq(segs, 1, i)).v.t # "obj"
    \/ /\ Lookup(tree, segs) # None
       /\ ~(Lookup(tree, segs).v.t = "obj" /\ value.t = "obj")

\* C21: when the second entry's path meets a conflict with what the first
\* entry put in place, strict expansion fails with the path-conflict error
\* and non-strict expansion leaves the second entry's value at its path
C21_PathConflict ==
    (/\ pc = "decoded"
     /\ input.family = "paths"
     /\ options.expand_paths = "safe"
     /\ PathConflict(Nest(input.first.segs, PathValue(input.first.kind, 1)),
                     input.second.segs, PathValue(input.second.kind, 2)))
    => IF options.strict
       THEN ~result.ok /\ result.exc = "TypeError" /\ result.err = "PathConflict"
       ELSE /\ result.ok
            /\ Lookup(result.v, input.second.segs) = Some(PathValue(input.second.kind, 2))

\* the value of an entry of each kind
QuotedEntryValue(kind) ==
    CASE kind = "scalar" -> VInt(1)
      [] kind = "obj" -> Obj1(<<"k">>, VInt(1))
      [] kind \in {"inline", "list"} -> VArr(<<VInt(1), VInt(2)>>)
      [] kind = "rows" -> VArr(<<Obj1(<<"x">>, VInt(1))>>)

\* the value of the text when the quoted key is kept whole
QuotedEntryKept(sh) ==
    CASE sh.place = "root" -> Obj1(sh.key, QuotedEntryValue(sh.kind))
      [] sh.place = "nested" -> Obj1(<<"x">>, Obj1(sh.key, QuotedEntryValue(sh.kind)))
      [] sh.place = "item" -> VArr(<<Obj1(sh.key, QuotedEntryValue(sh.kind))>>)
      [] sh.place = "field" ->
            VArr(<<VObj(<<Entry(<<"z">>, VInt(0)), Entry(sh.key, QuotedEntryValue(sh.kind))>>)>>)

\* C22: with expand_paths safe a key written in quotes is kept whole,
\* whatever the kind of entry it heads
C22_QuotedKeyNotExpanded ==
    (pc = "decoded" /\ input.family = "quoted" /\ options.expand_paths = "safe") =>
        (result.ok /\ ValueEq(result.v, QuotedEntryKept(input)))

\* the text between the brackets is a length: digits, with an optional tab
\* or pipe after them
LengthSegment(seg) ==
    LET digits == IF Len(seg) > 0 /\ seg[Len(seg)] \in {TAB, PIPE}
                  THEN SubSeq(seg, 1, Len(seg) - 1) ELSE seg
    IN  Len(digits) > 0 /\ \A i \in 1..Len(digits) : digits[i] \in Digits

\* the line begins with a bracket segment that holds a length and has a
\* colon after it
RootHeaderLine(line) ==
    /\ Len(line) > 0
    /\ line[1] = OPEN_BRACKET
    /\ \E close \in 2..Len(line) :
          /\ line[close] = CLOSE_BRACKET
          /\ \A j \in 2..(close - 1) : line[j] # CLOSE_BRACKET
          /\ LengthSegment(SubSeq(line, 2, close - 1))
          /\ \E j \in (close + 1)..Len(line) : line[j] = COLON

\* the line has a colon outside a leading quoted token
KeyValueLine(line) ==
    IF Len(line) > 0 /\ line[1] = DOUBLE_QUOTE
    THEN \E close \in 2..Len(line) :
            /\ line[close] = DOUBLE_QUOTE
            /\ \A j \in 2..(close - 1) : line[j] \notin {DOUBLE_QUOTE, BACKSLASH}
            /\ \E j \in (close + 1)..Len(line) : line[j] = COLON
    ELSE \E j \in 1..Len(line) : line[j] = COLON

\* C23: a first line that is an array header gives the root array; a single
\* line that is not a key-value line gives the primitive parsed from it;
\* every other text is decoded as a root object
C23_TopLevelDispatch ==
    (pc = "decoded" /\ input.family = "dispatch") =>
        IF RootHeaderLine(input.first)
        THEN result.ok => result.v.t = "arr"
        ELSE IF input.rest = <<>> /\ ~KeyValueLine(input.first)
        THEN SameOutcome(result, parse_primitive_token(input.first))
        ELSE result.ok => result.v.t = "obj"

\* C23 witness: the single line "a:b" in quotes was read as a string
C23_Witness ==
    /\ pc = "decoded"
    /\ input.family = "dispatch"
    /\ input.first = <<"\"", "a", ":", "b", "\"">>
    /\ input.rest = <<>>
    /\ result.ok
    /\ result.v = VStr(<<"a", ":", "b">>)

\* the element kinds of an array, read off the value alone
AllPrimitive(v) == \A i \in 1..Len(v.a) : v.a[i].t \in {"null", "bool", "num", "str"}

AllPrimitiveArrays(v) == \A i \in 1..Len(v.a) : v.a[i].t = "arr" /\ AllPrimitive(v.a[i])

\* the inline rendering of an array of primitives: header, and after a
\* space the delimiter-joined values when there are any
InlineLine(a, delimiter) ==
    InlineHeader(Len(a), delimiter)
        \o (IF Len(a) = 0 THEN <<>>
            ELSE <<" ">> \o Join(delimiter, [i \in 1..Len(a) |-> encode_primitive(a[i], delimiter)]))

\* a header without fields followed by lines one level deeper or more, the
\* lines at exactly one level being list items
ListItemForm(lines, n, opts) ==
    /\ lines[1] = InlineHeader(n, opts.delimiter)
    /\ \A i \in 2..Len(lines) :
          /\ Slice(lines[i], 0, opts.indent) = Repeat(" ", opts.indent)
          /\ At(lines[i], opts.indent) # " " => At(lines[i], opts.indent) = "-"

\* C24: a root array is laid out by the first rule that applies: empty ->
\* header with length 0 and no body; all primitives -> one inline line; all
\* arrays of primitives -> header and one inline list item per sub-array;
\* objects with one non-empty key set and primitive values -> tabular header
\* and one row per object; otherwise -> header and list items
C24_ArrayLayout ==
    (pc # "start" /\ input.t = "arr" /\ options.enc.indent > 0) =>
        LET lines == Split(text, NEWLINE)
            opts == options.enc
            n == Len(input.a)
        IN  IF n = 0 THEN lines = <<InlineHeader(0, opts.delimiter)>>
            ELSE IF AllPrimitive(input) THEN lines = <<InlineLine(input.a, opts.delimiter)>>
            ELSE IF AllPrimitiveArrays(input)
            THEN /\ Len(lines) = n + 1
                 /\ lines[1] = InlineHeader(n, opts.delimiter)
                 /\ \A i \in 1..n :
                       lines[i + 1] = Repeat(" ", opts.indent) \o <<"-", " ">>
                                          \o InlineLine(input.a[i].a, opts.delimiter)
            ELSE IF UniformRows(input) THEN lines = TabularLines(None, input.a, opts)
            ELSE ListItemForm(lines, n, opts)

\* an encoded array of uniform objects beside which every other rule has
\* been tried first
C24_Witness ==
    /\ pc = "encoded" /\ input.t = "arr" /\ options.enc.indent > 0
    /\ Len(input.a) = 2 /\ UniformRows(input)
    /\ Split(text, NEWLINE) = TabularLines(None, input.a, options.enc)

\* the number of leading spaces of a line
LineIndent(line) ==
    IF \A i \in 1..Len(line) : line[i] = " " THEN Len(line)
    ELSE (CHOOSE i \in 1..Len(line) : line[i] # " " /\ \A j \in 1..(i - 1) : line[j] = " ") - 1

\* the key of an entry line: the text after the indentation and before the
\* first colon or bracket
LineKey(line) ==
    LET body == From(line, LineIndent(line))
        ends == {i \in 1..Len(body) : body[i] \in {":", "["}}
    IN  IF ends = {} THEN body
        ELSE SubSeq(body, 1, (CHOOSE i \in ends : \A j \in ends : i <= j) - 1)

\* an unquoted key with a dot: in the text of a value whose own keys have no
\* dot, a folded key
FoldedKeyLine(line) ==
    /\ Len(LineKey(line)) > 0
    /\ LineKey(line)[1] # DOUBLE_QUOTE
    /\ Contains(LineKey(line), DOT)

\* the lines whose entries enclose line i
Ancestors(lines, i) ==
    {j \in 1..(i - 1) :
        /\ LineIndent(lines[j]) < LineIndent(lines[i])
        /\ \A k \in (j + 1)..i : LineIndent(lines[k]) > LineIndent(lines[j])}

RECURSIVE SegmentSum(_, _)
SegmentSum(f, S) ==
    IF S = {} THEN 0 ELSE LET x == CHOOSE y \in S : TRUE IN f[x] + SegmentSum(f, S \ {x})

\* the segments already consumed by the folded keys that enclose line i
SegmentsConsumed(lines, i) ==
    LET folded == {j \in Ancestors(lines, i) : FoldedKeyLine(lines[j])}
    IN  SegmentSum([j \in folded |-> Len(Split(LineKey(lines[j]), DOT))], folded)

\* an object whose keys have no dot and whose leaves are primitives, empty
\* objects or arrays of primitives
RECURSIVE PlainObject(_)
PlainObject(v) ==
    /\ v.t = "obj"
    /\ \A i \in 1..Len(v.o) :
          /\ ~Contains(v.o[i].k, DOT)
          /\ \/ v.o[i].v.t \in {"null", "bool", "num", "str"}
             \/ v.o[i].v.t = "arr" /\ AllPrimitive(v.o[i].v)
             \/ PlainObject(v.o[i].v)

\* C25: with key_folding safe every folded key has at least 2 segments, all
\* of them identifiers, and at most as many as flatten_depth less the segments
\* of the folded keys that enclose it; with flatten_depth 0 or 1 the text is
\* the text written with key_folding off
C25_FoldBudget ==
    (pc # "start" /\ options.enc.key_folding = "safe") =>
        /\ (PlainObject(input) /\ options.enc.indent > 0) =>
               LET lines == Split(text, NEWLINE)
               IN  \A i \in 1..Len(lines) :
                       FoldedKeyLine(lines[i]) =>
                           LET segments == Split(LineKey(lines[i]), DOT)
                           IN  /\ Len(segments) >= 2
                               /\ \A n \in 1..Len(segments) : IdentifierSegment(segments[n])
                               /\ \/ options.enc.flatten_depth.inf
                                  \/ Len(segments) <= options.enc.flatten_depth.n
                                                          - SegmentsConsumed(lines, i)
        /\ (~options.enc.flatten_depth.inf /\ options.enc.flatten_depth.n <= 1) =>
               text = encode(input, [options.enc EXCEPT !.key_folding = "off"])

\* a fold of two segments that stops at an object of two keys, under which a
\* chain is folded to the two segments that remain of a budget of four
C25_Witness ==
    /\ pc = "encoded" /\ options.enc.key_folding = "safe"
    /\ options.enc.flatten_depth = FlattenDepth(4)
    /\ Split(text, NEWLINE) = << <<"a", ".", "b", ":">>,
                                 <<" ", " ", "c", ".", "d", ":">>,
                                 <<" ", " ", " ", " ", "e", ":", " ", "1">>,
                                 <<" ", " ", "f", ":", " ", "2">> >>

----------------------------------------------------------------------------
(* SpecScan: the line scanner is run on a text, as decode runs it before    *)
(* any line is decoded.                                                    *)

MaxScanLen == 5

ScanAlphabet == {SPACE, TAB, NEWLINE, "a"}

ScanTexts == UNION {[1..n -> ScanAlphabet] : n \in 0..MaxScanLen}

InitScan ==
    /\ pc = "start"
    /\ input \in [family : {"scan"}, text : ScanTexts]
    /\ options \in [indent : 0..MaxIndent, strict : BOOLEAN, expand_paths : {"off"}]
    /\ text = input.text
    /\ result = None /\ text2 = <<>> /\ stack = <<>> /\ writer = <<>>

\* lines, blanks = to_parsed_lines(source, resolved.indent, resolved.strict)
ScanLines ==
    /\ pc = "start"
    /\ result' = to_parsed_lines(text, options.indent, options.strict)
    /\ pc' = "scanned"
    /\ UNCHANGED <<input, options, text, text2, stack, writer>>

NextScan == ScanLines

SpecScan == InitScan /\ [][NextScan]_vars

\* a line that is empty or holds whitespace only
BlankRaw(raw) == \A i \in 1..Len(raw) : raw[i] \in {SPACE, TAB}

\* a tab somewhere in the run of spaces and tabs that opens the line
TabInLeading(raw) ==
    \E i \in 1..Len(raw) : raw[i] = TAB /\ \A j \in 1..(i - 1) : raw[j] \in {SPACE, TAB}

BadIndent(raw, unit) ==
    /\ ~BlankRaw(raw)
    /\ \/ TabInLeading(raw)
       \/ unit > 0 /\ LineIndent(raw) % unit # 0

\* the numbers in S in increasing order
RECURSIVE Ascending(_)
Ascending(S) ==
    IF S = {} THEN <<>>
    ELSE LET m == CHOOSE x \in S : \A y \in S : x <= y IN <<m>> \o Ascending(S \ {m})

\* the scan fails exactly in strict mode with a badly indented line, and
\* each parsed line is a non-blank line, in order, with its depth
ScanOutcome(raws) ==
    /\ result.ok <=> ~(options.strict /\ \E i \in 1..Len(raws) : BadIndent(raws[i], options.indent))
    /\ result.ok =>
          \A n \in 1..Len(result.v.lines) :
              LET line == result.v.lines[n]
              IN  /\ line.raw = raws[line.line_number]
                  /\ line.depth = (IF options.indent = 0 THEN 0
                                    ELSE LineIndent(line.raw) \div options.indent)

ParsedNumbers == [n \in 1..Len(result.v.lines) |-> result.v.lines[n].line_number]

BlankNumbers == [n \in 1..Len(result.v.blanks) |-> result.v.blanks[n].line_number]

\* C26 as stated: strict fails exactly on a tab in the leading whitespace
\* or an indent that is no multiple of the unit, non-strict never fails, each
\* parsed line has depth = leading spaces div unit, and the blank lines are
\* left out of the parsed lines and recorded with their line numbers
C26_ScanLines ==
    pc = "scanned" =>
        LET raws == Split(text, NEWLINE)
        IN  /\ ScanOutcome(raws)
            /\ result.ok =>
                  /\ ParsedNumbers = Ascending({i \in 1..Len(raws) : ~BlankRaw(raws[i])})
                  /\ BlankNumbers = Ascending({i \in 1..Len(raws) : BlankRaw(raws[i])})

\* C26, amended: as C26, except that for a source that is empty or holds
\* whitespace only no blank line is recorded
C26_ScanLinesUnlessBlankSource ==
    pc = "scanned" =>
        LET raws == Split(text, NEWLINE)
        IN  /\ ScanOutcome(raws)
            /\ result.ok =>
                  /\ ParsedNumbers = Ascending({i \in 1..Len(raws) : ~BlankRaw(raws[i])})
                  /\ BlankNumbers = IF \A i \in 1..Len(raws) : BlankRaw(raws[i]) THEN <<>>
                                    ELSE Ascending({i \in 1..Len(raws) : BlankRaw(raws[i])})

\* a strict scan that returns an indented line and records a blank line
C26_Witness ==
    /\ pc = "scanned" /\ options.strict /\ options.indent > 0 /\ result.ok
    /\ \E n \in 1..Len(result.v.lines) : result.v.lines[n].depth > 0
    /\ Len(result.v.blanks) > 0

----------------------------------------------------------------------------
(* SpecToken: parse_primitive_token is applied to a token as the decoder   *)
(* cuts it from a line.                                                    *)

MaxTokenLen == 3

TokenAlphabet == {"0", "1", "-", ".", "e", "a", " "}

TokenSamples ==
    {TRUE_LITERAL, FALSE_LITERAL, NULL_LITERAL,
     <<"-", "0", "0", "7">>, <<"-", "0", ".", "5">>, <<"0", ".", "0", "5">>, <<"-", "0", "1", ".", "5">>,
     <<"0", "1", "e", "1">>, <<"1", ".", "5", "e", "1">>, <<" ", "0", "1", " ">>, <<"t", "r", "u", "e", "1">>}

TokenTexts == StringsUpTo(TokenAlphabet, MaxTokenLen) \cup TokenSamples

InitToken ==
    /\ pc = "start"
    /\ input \in [family : {"token"}, text : TokenTexts]
    /\ options \in {[delimiter |-> d] : d \in DELIMITERS}
    /\ text = input.text
    /\ result = None /\ text2 = <<>> /\ stack = <<>> /\ writer = <<>>

ParseToken ==
    /\ pc = "start"
    /\ result' = parse_primitive_token(text)
    /\ pc' = "parsed"
    /\ UNCHANGED <<input, options, text, text2, stack, writer>>

NextToken == ParseToken

SpecToken == InitToken /\ [][NextToken]_vars

\* the integer part, after an optional minus sign, is a zero followed by a
\* further digit: 01, 007, -01
LeadingZeroInteger(s) ==
    LET body == IF StartsWithChar(s, "-") THEN Tail(s) ELSE s
    IN  Len(body) > 1 /\ body[1] = "0" /\ body[2] \in Digits

\* 0, -0 and 0.x: a zero integer part with an optional fraction
ZeroForm(s) ==
    LET body == IF StartsWithChar(s, "-") THEN Tail(s) ELSE s
    IN  body = <<"0">> \/ (Len(body) > 2 /\ body[1] = "0" /\ body[2] = "." /\ AllDigits(Tail(Tail(body))))

\* C27: the empty token gives the empty string and true, false and null
\* their values; a number is returned only for a numeric literal without a
\* leading zero in its integer part; 01, 007 and -01 are returned as their
\* own text, 0, -0 and 0.x as numbers, and every token that is no numeric
\* literal as its own text
C27_ParsePrimitiveToken ==
    pc = "parsed" =>
        LET token == Strip(text)
        IN  IF token = <<>> THEN result = Ok(VStr(<<>>))
            ELSE IF token = TRUE_LITERAL THEN result = Ok(VBool(TRUE))
            ELSE IF token = FALSE_LITERAL THEN result = Ok(VBool(FALSE))
            ELSE IF token = NULL_LITERAL THEN result = Ok(VNull)
            ELSE IF ~NumericText(token) \/ LeadingZeroInteger(token) THEN result = Ok(VStr(token))
            ELSE IF ZeroForm(token) THEN result.ok /\ result.v.t = "num"
            ELSE result.ok /\ result.v.t \in {"num", "str"}

----------------------------------------------------------------------------
(* SpecEscape: a string is escaped and the escaped text unescaped, and a    *)
(* string is unescaped as it stands.                                       *)

MaxEscapeLen == 4

EscapeAlphabet == {BACKSLASH, DOUBLE_QUOTE, NEWLINE, CARRIAGE_RETURN, TAB, "n", "a"}

EscapeTexts == StringsUpTo(EscapeAlphabet, MaxEscapeLen)

InitEscape ==
    /\ pc = "start"
    /\ input \in [family : {"escape"}, text : EscapeTexts]
    /\ options \in {[delimiter |-> DEFAULT_DELIMITER]}
    /\ text = <<>>
    /\ result = None /\ text2 = <<>> /\ stack = <<>> /\ writer = <<>>

EscapeString ==
    /\ pc = "start"
    /\ text' = escape_string(input.text)
    /\ pc' = "escaped"
    /\ UNCHANGED <<input, options, result, text2, stack, writer>>

UnescapeEscaped ==
    /\ pc = "escaped"
    /\ result' = unescape_string(text)
    /\ pc' = "unescaped"
    /\ UNCHANGED <<input, options, text, text2, stack, writer>>

UnescapeString ==
    /\ pc = "start"
    /\ result' = unescape_string(input.text)
    /\ pc' = "raw"
    /\ UNCHANGED <<input, options, text, text2, stack, writer>>

NextEscape == EscapeString \/ UnescapeEscaped \/ UnescapeString

SpecEscape == InitEscape /\ [][NextEscape]_vars

\* what escape_string writes for one character
EscapedChar(c) ==
    CASE c = BACKSLASH -> <<BACKSLASH, BACKSLASH>>
      [] c = DOUBLE_QUOTE -> <<BACKSLASH, DOUBLE_QUOTE>>
      [] c = NEWLINE -> <<BACKSLASH, "n">>
      [] c = CARRIAGE_RETURN -> <<BACKSLASH, "r">>
      [] c = TAB -> <<BACKSLASH, "t">>
      [] OTHER -> <<c>>

\* the backslashes that stand directly before position i
RECURSIVE BackslashesBefore(_, _)
BackslashesBefore(s, i) ==
    IF i > 1 /\ s[i - 1] = BACKSLASH THEN 1 + BackslashesBefore(s, i - 1) ELSE 0

\* a backslash that opens an escape: an even number of backslashes
\* stands before it
OpensEscape(s, i) == s[i] = BACKSLASH /\ BackslashesBefore(s, i) % 2 = 0

\* a backslash at the end, or before a character that is none of
\* n, r, t, backslash and double quote
MalformedEscapeIn(s) ==
    \E i \in 1..Len(s) :
        /\ OpensEscape(s, i)
        /\ \/ i = Len(s)
           \/ s[i + 1] \notin {"n", "r", "t", BACKSLASH, DOUBLE_QUOTE}

\* C28: escape_string rewrites backslash, double quote, newline, carriage
\* return and tab and nothing else; unescape_string gives the string back;
\* and unescape_string fails with the malformed-escape error exactly on a
\* lone trailing backslash or a backslash before any other character
C28_EscapeRoundTrip ==
    /\ pc \in {"escaped", "unescaped"} =>
           text = Flatten([i \in 1..Len(input.text) |-> EscapedChar(input.text[i])])
    /\ pc = "unescaped" => result = Ok(input.text)
    /\ pc = "raw" =>
           IF MalformedEscapeIn(input.text)
           THEN result = Err("SyntaxError", "MalformedEscape")
           ELSE result.ok

\* a string with a backslash before an n, and a newline, has come back
C28_Witness ==
    /\ pc = "unescaped"
    /\ input.text = <<BACKSLASH, "n", NEWLINE>>
    /\ text = <<BACKSLASH, BACKSLASH, "n", BACKSLASH, "n">>
    /\ result = Ok(input.text)

----------------------------------------------------------------------------
(* SpecCursor: decode runs on the texts of SpecLines and the cursor it     *)
(* leaves, with its history, is kept whether decode returned or raised.    *)

TraceDecode ==
    /\ pc = "start"
    /\ result' = DecodeTrace(text, options)
    /\ pc' = "decoded"
    /\ UNCHANGED <<input, options, text, text2, stack, writer>>

NextCursor == TraceDecode

SpecCursor == InitLines /\ [][NextCursor]_vars

LoopSteps == {"siblings", "items", "rows", "fields"}

\* a line that opens a nested object or an array body: it ends with a colon
OpensBody(line) == EndsWithChar(Strip(line.content), COLON)

\* C29: decode ends, with a value or an error, and on the way every
\* iteration of a decoder loop that went on to a further iteration has
\* consumed at least one line, so that there are no more iterations than
\* lines, and every descent into a nested object or array body happens
\* right after the consumption of the line that opened it
C29_EveryIterationConsumes ==
    pc = "decoded" =>
        LET steps == result.cur.steps
            log == result.cur.log
        IN  /\ \A n \in 1..Len(steps) :
                  IF steps[n].step \in LoopSteps THEN steps[n].to > steps[n].from
                  ELSE /\ steps[n].from >= 1
                       /\ \E k \in 1..Len(log) : log[k] = steps[n].from - 1
                       /\ OpensBody(result.lines[steps[n].from])
            /\ Cardinality({n \in 1..Len(steps) : steps[n].step \in LoopSteps}) <= Len(result.lines)

\* a decode that went twice round a loop inside a nested body
C29_Witness ==
    /\ pc = "decoded" /\ result.ok
    /\ \E m, n \in 1..Len(result.cur.steps) :
          /\ m < n
          /\ result.cur.steps[m].step \notin LoopSteps
          /\ result.cur.steps[n].step \in LoopSteps
          /\ \E k \in 1..Len(result.cur.steps) :
                k > n /\ result.cur.steps[k].step = result.cur.steps[n].step
    /\ result.cur.index = Len(result.lines)

\* C30: the cursor's index stays between 0 and the number of parsed lines
\* and never decreases: advance and next run only at an index that has a
\* line, each at the index the one before it left, so that no line is
\* consumed twice
C30_CursorInBounds ==
    pc = "decoded" =>
        LET cur == result.cur
        IN  /\ 0 <= cur.index /\ cur.index <= Len(result.lines)
            /\ \A k \in 1..Len(cur.log) : cur.log[k] < Len(result.lines) /\ cur.log[k] = k - 1
            /\ cur.index = Len(cur.log)
            /\ \A n \in 1..Len(cur.steps) :
                  /\ cur.steps[n].from <= cur.steps[n].to
                  /\ n > 1 => cur.steps[n - 1].from <= cur.steps[n].to

\* a decode that raised an error after it had consumed every line
C30_Witness ==
    /\ pc = "decoded" /\ ~result.ok
    /\ Len(result.lines) >= 3
    /\ result.cur.index = Len(result.lines)
    /\ result.cur.log = <<0, 1, 2>>

====
